---- MODULE Spec2Model ----
(***************************************************************************)
(* Model of the multi-tenant namespace manager of versitygw:               *)
(*   backend/dynamic_backend.go  DynamicBackendManager (registry, mount    *)
(*                               and unmount lifecycle)                    *)
(*   auth/multi_tenant.go        DefaultMultiTenantManager (tenant records)*)
(* Goroutines call GetUserBackend / UnmountUserBackend concurrently; each  *)
(* call is split at its lock operations and at its external commands.      *)
(***************************************************************************)
EXTENDS Integers, Sequences, FiniteSets, TLC

(* ------------------------------ bounds -------------------------------- *)
NumProcs == 2
MaxCalls == 3
MaxCfgOps == 1
\* the quota guard: calls of CheckQuota / UpdateUsedSpace, records stored
MaxQuotaCalls == 4
MaxQuotaCfg == 2
\* both managers together: calls begun in one run
MaxIsoCalls == 2
\* the stripe planner: objects planned in one run
MaxPlans == 2
\* striped reads: the largest offset, length, stripe size and stripe count
MaxOffset == 4
MaxLen == 5
MaxStripeSize == 3
MaxStripeCount == 3
\* the chunks the memory of the process holds
MaxChunks == 8
\* the CPUs of the machine, the length of the file read
MaxCPU == 3
FileLen == 6
\* the model's int64 has IntBits bits
IntBits == 16

Procs == 1..NumProcs
Users == {"u1", "u2"}
None == "none"

(* Go maps: a function whose domain is the set of keys present *)
EmptyMap == [k \in {} |-> None]
Has(m, k) == k \in DOMAIN m
Put(m, k, v) == [x \in DOMAIN m \cup {k} |-> IF x = k THEN v ELSE m[x]]
Delete(m, k) == [x \in DOMAIN m \ {k} |-> m[x]]
\* the nil Backend; the handles constructed are 1, 2, ...
NilBackend == 0

(* ------------------------- program constants -------------------------- *)
BackendStatusPending == "pending"
BackendStatusMounting == "mounting"
BackendStatusReady == "ready"
BackendStatusError == "error"
BackendStatusUnmounting == "unmounting"
BackendStatusUnmounted == "unmounted"

validBackends == {"posix", "cephfs", "nfs", "lustre", "minio", "rustfs"}
MountKinds == {"cephfs", "nfs", "lustre"}
\* a backend type outside the known list, as CreateUserNamespace may store it
UnknownKind == "bogus"
AllKinds == validBackends \cup {UnknownKind}

(* error values: nil is the empty chain; fmt.Errorf("...: %w", err) puts   *)
(* its message in front of the chain of the error it wraps                 *)
Nil == << >>
Wrap(msg, err) == <<msg>> \o err
Leaf(msg) == <<msg>>
RECURSIVE Cause(_)
Cause(err) == IF Len(err) <= 1 THEN err ELSE Cause(Tail(err))
ErrUserStorageNotFound == Leaf("user storage configuration not found")
ErrInvalidBackendType == Leaf("invalid backend type")
ErrQuotaExceeded == Leaf("storage quota exceeded")
ErrNotEnabled == Leaf("multi-tenant mode not enabled")
ErrExit == Leaf("exit status")
ErrDeadline == Leaf("context deadline exceeded")
ErrMkdir == Leaf("mkdir")
ErrNew == Leaf("backend constructor")
ErrEOF == Leaf("EOF")
ErrIO == Leaf("input/output error")
ErrCanceled == Leaf("context canceled")

(* int64 arithmetic: the sum of two int64 wraps around *)
MaxInt64 == 2^(IntBits - 1) - 1
MinInt64 == -(2^(IntBits - 1))
Int64(x) == ((x - MinInt64 + 2^IntBits) % (2^IntBits)) + MinInt64

(* paths: the sequence of the components of an absolute path *)
\* MultiTenantConfig.BasePath and DynamicBackendConfig.BaseMountPath (one flag)
BasePath == <<"base">>
\* the string ""
EmptyPath == <<"">>

\* filepath.Clean of an absolute path: "" and "." dropped, ".." removes the
\* component before it, and nothing at the root
RECURSIVE CleanOnto(_, _)
CleanOnto(seen, rest) ==
    IF rest = << >> THEN seen
    ELSE IF Head(rest) \in {"", "."} THEN CleanOnto(seen, Tail(rest))
    ELSE IF Head(rest) = ".."
         THEN CleanOnto(IF seen = << >> THEN seen ELSE SubSeq(seen, 1, Len(seen) - 1),
                        Tail(rest))
    ELSE CleanOnto(Append(seen, Head(rest)), Tail(rest))

Clean(path) == CleanOnto(<< >>, path)

\* filepath.Join(base, elems...)
Join(base, elems) == Clean(base \o elems)

\* a UserStorageConfig: the fields the managers read
UserStorageConfig(kind, path, quota, used) ==
    [BackendType |-> kind, StoragePath |-> path, Quota |-> quota, UsedSpace |-> used]

VARIABLES
    userBackends,      \* dm.userBackends: userID -> handle
    userConfigs,       \* dm.userConfigs: userID -> UserBackendConfig
    mountPoints,       \* dm.mountPoints: userID -> mount point
    mu,                \* dm.mu: [writer, readers]
    mtUserConfigs,     \* DefaultMultiTenantManager.userConfigs
    Enabled,           \* MultiTenantConfig.Enabled
    defaultBackendType,\* the --default-backend flag, used by both managers
    osMounts,          \* number of filesystems the OS has mounted at the user's path
    nextHandle,        \* handles constructed so far (each constructor call is a new object)
    pc,                \* position of each goroutine
    call,              \* the call a goroutine runs: [name, userID]
    backend,           \* local: backend
    err,               \* local: err
    result,            \* what the call returned: [backend, err]
    cmdlog,            \* external commands this call has run: <<[cmd, outcome]>>
    built,             \* this call ran createBackendByType
    fresh,             \* the tenant had no record, handle or mount point when the call began
    inflight,          \* the other goroutines' calls in flight when this call began
    ncalls,            \* calls begun
    ncfg,              \* configuration operations done
    DefaultQuota,      \* MultiTenantConfig.DefaultQuota
    mtPtr,             \* identity of the *UserStorageConfig stored for a user
    nextPtr,           \* records stored so far (each stored record is another object)
    qlocal,            \* UpdateUsedSpace locals: [ptr, used]
    authorised,        \* the write a goroutine's CheckQuota has let through
    together,          \* the writes in flight together with a goroutine's write
    unchecked,         \* tenants whose usage grew by an update no CheckQuota let through
    lustreConfig,      \* LustreEnhancedBackend.lustreConfig: [StripeCount, StripeSize]
    planned,           \* calculateOptimalStriping calls: <<[size, stripeInfo]>>
    req,               \* parallelReadStripes arguments: [offset, size, stripeInfo]
    fileSize,          \* length of the file read
    numCPU,            \* runtime.NumCPU()
    chunks,            \* chunks
    results,           \* results
    errors,            \* errors
    sem,               \* number of tokens in the channel sem
    wpc,               \* position of each chunk goroutine
    reads,             \* file.ReadAt calls issued: <<[offset, size]>>
    ret,               \* what parallelReadStripes returned: [data, err]
    rpc,               \* position of the calling goroutine
    ctxDone,           \* the context of the request that reads has been cancelled
    acc,               \* a ValidateUserAccess call: [userID, resourcePath, done, err]
    wrap,              \* a call of the Lustre wrapper: [op, input, under, calls, ret]
    loop,              \* calculateStripeChunks locals: [currentOffset, remaining]
    cm,                \* the ConfigManager: [called, ret, globalConfig, backendTemplates, created]
    perIteration       \* the build gives each pass of a range loop its own variable

registry == <<userBackends, userConfigs, mountPoints>>
locals == <<backend, err>>
ghosts == <<built, fresh, inflight>>
config == <<Enabled, defaultBackendType, DefaultQuota>>
quotaVars == <<mtPtr, nextPtr, qlocal, authorised, together, unchecked>>
\* the variables of the backend registry alone
dmVars == <<userBackends, userConfigs, mountPoints, mu, osMounts, nextHandle, cmdlog,
            built, fresh, inflight>>
stripeVars == <<lustreConfig, planned>>
readVars == <<req, fileSize, numCPU, chunks, results, errors, sem, wpc, reads, ret, rpc,
              ctxDone>>
accessVars == <<acc>>
wrapVars == <<wrap, loop>>
cmVars == <<cm, perIteration>>
\* the variables the registry never touches
others == <<quotaVars, stripeVars, readVars, accessVars, wrapVars, cmVars>>
vars == <<userBackends, userConfigs, mountPoints, mu, mtUserConfigs, Enabled,
          defaultBackendType, osMounts, nextHandle, pc, call, backend, err,
          result, cmdlog, built, fresh, inflight, ncalls, ncfg, DefaultQuota,
          quotaVars, stripeVars, readVars, accessVars, wrapVars, cmVars>>

NoCall == [name |-> None, userID |-> None]
NoResult == [backend |-> NilBackend, err |-> Nil]
NoLocal == [ptr |-> 0, used |-> 0]
NoWrite == [userID |-> None, size |-> 0, id |-> 0]
NoStripeInfo == [StripeCount |-> 0, StripeSize |-> 0, StripeIndex |-> 0]
NoReq == [offset |-> 0, size |-> 0, stripeInfo |-> NoStripeInfo]
NoRet == [data |-> << >>, err |-> Nil]

\* no quota call has run
QuotaIdle ==
    /\ mtPtr = EmptyMap
    /\ nextPtr = 0
    /\ qlocal = [p \in Procs |-> NoLocal]
    /\ authorised = [p \in Procs |-> NoWrite]
    /\ together = [p \in Procs |-> {}]
    /\ unchecked = {}

\* no striping has been planned
StripeIdle ==
    /\ lustreConfig = [StripeCount |-> 0, StripeSize |-> 0]
    /\ planned = << >>

NoAccess == [userID |-> None, resourcePath |-> << >>, done |-> FALSE, err |-> Nil]

\* no access has been validated
AccessIdle == acc = NoAccess

NoWrap == [op |-> None, input |-> << >>, under |-> << >>, calls |-> << >>, ret |-> << >>]

NoLoop == [currentOffset |-> 0, remaining |-> 0]

\* the Lustre wrapper has not been called
WrapIdle == wrap = NoWrap /\ loop = NoLoop

NoCm == [called |-> FALSE, ret |-> << >>, globalConfig |-> << >>,
         backendTemplates |-> [k \in {} |-> << >>], created |-> << >>]

\* no configuration has been loaded
CmIdle == cm = NoCm /\ perIteration = TRUE

\* no parallel read has begun
ReadIdle ==
    /\ req = NoReq
    /\ fileSize = 0
    /\ numCPU = 1
    /\ chunks = << >>
    /\ results = << >>
    /\ errors = << >>
    /\ sem = 0
    /\ wpc = << >>
    /\ reads = << >>
    /\ ret = NoRet
    /\ rpc = "idle"
    /\ ctxDone = FALSE

\* NewDynamicBackendManager and NewMultiTenantManager: empty maps
Init ==
    /\ userBackends = EmptyMap
    /\ userConfigs = EmptyMap
    /\ mountPoints = EmptyMap
    /\ mu = [writer |-> 0, readers |-> {}]
    /\ mtUserConfigs = EmptyMap
    /\ Enabled \in BOOLEAN
    /\ defaultBackendType \in AllKinds
    /\ osMounts = [u \in Users |-> 0]
    /\ nextHandle = 0
    /\ pc = [p \in Procs |-> "idle"]
    /\ call = [p \in Procs |-> NoCall]
    /\ backend = [p \in Procs |-> NilBackend]
    /\ err = [p \in Procs |-> Nil]
    /\ result = [p \in Procs |-> NoResult]
    /\ cmdlog = [p \in Procs |-> << >>]
    /\ built = [p \in Procs |-> FALSE]
    /\ fresh = [p \in Procs |-> FALSE]
    /\ inflight = [p \in Procs |-> {}]
    /\ ncalls = 0
    /\ ncfg = 0
    /\ DefaultQuota = 0
    /\ QuotaIdle
    /\ StripeIdle
    /\ ReadIdle
    /\ AccessIdle
    /\ WrapIdle
    /\ CmIdle

(* --------------------------- sync.RWMutex ----------------------------- *)
\* faulty variant: the exclusive lock is not waited for
CanLock_Missing == TRUE

\* mu.Lock() can proceed: no writer and no reader holds the lock
CanLock == mu.writer = 0 /\ mu.readers = {}
\* mu.RLock() can proceed: no writer holds the lock
CanRLock == mu.writer = 0
Unlocked == [writer |-> 0, readers |-> {}]

(* ------------------- auth.DefaultMultiTenantManager ------------------- *)
(* The manager has no lock of its own; each of its calls is one step here. *)
\* GetUserStorageConfig: the stored record, or ErrUserStorageNotFound
GetUserStorageConfig(cfgs, u) ==
    IF Has(cfgs, u) THEN Nil ELSE ErrUserStorageNotFound

\* SetUserStorageConfig: stores the record only when its backend type is valid
SetUserStorageConfig(cfgs, u, c) ==
    IF c.BackendType \notin validBackends
    THEN [cfgs |-> cfgs, err |-> ErrInvalidBackendType]
    ELSE [cfgs |-> Put(cfgs, u, c), err |-> Nil]

\* GetUserBasePath fails when multi-tenant mode is off
GetUserBasePath(u) == IF Enabled THEN Nil ELSE ErrNotEnabled
\* GetUserBasePath: filepath.Join(m.config.BasePath, "users", userID)
UserBasePath(u) == Join(BasePath, <<"users", u>>)

\* CreateUserNamespace(userID, config): a nil config becomes the default one;
\* the record is stored without validation of its backend type
CreateUserNamespace(cfgs, u, isNil, c) ==
    IF GetUserBasePath(u) # Nil THEN [cfgs |-> cfgs, err |-> GetUserBasePath(u)]
    ELSE [cfgs |-> Put(cfgs, u,
                       IF isNil
                       THEN UserStorageConfig(defaultBackendType, UserBasePath(u),
                                              DefaultQuota, 0)
                       ELSE IF c.StoragePath = EmptyPath
                            THEN [c EXCEPT !.StoragePath = UserBasePath(u)]
                            ELSE c),
          err |-> Nil]

\* faulty variant: every record is deleted
DeleteUserNamespace_All(cfgs, u) ==
    IF GetUserStorageConfig(cfgs, u) # Nil
    THEN [cfgs |-> cfgs,
          err |-> Wrap("failed to unmount storage before deletion",
                       GetUserStorageConfig(cfgs, u))]
    ELSE [cfgs |-> EmptyMap, err |-> Nil]

\* DeleteUserNamespace: UnmountUserStorage fails for a tenant without a
\* record, else it clears the record's Mounted flag; then the record is
\* deleted from the map
DeleteUserNamespace(cfgs, u) ==
    IF GetUserStorageConfig(cfgs, u) # Nil
    THEN [cfgs |-> cfgs,
          err |-> Wrap("failed to unmount storage before deletion",
                       GetUserStorageConfig(cfgs, u))]
    ELSE [cfgs |-> Delete(cfgs, u), err |-> Nil]

(* ----------------------- DynamicBackendManager ------------------------ *)
\* dm.baseConfig.BackendDefaults
BackendDefaults == [monitors |-> "mon1"]

\* faulty variant: the default record points at the user base path itself
createDefaultUserConfig_BasePath(cfgs, u) ==
    IF GetUserBasePath(u) # Nil THEN [cfgs |-> cfgs, err |-> GetUserBasePath(u)]
    ELSE SetUserStorageConfig(cfgs, u,
             UserStorageConfig(defaultBackendType, UserBasePath(u), 0, 0)
               @@ [BackendConfig |-> BackendDefaults])

\* createDefaultUserConfig: default record from the base configuration, with
\* a copy of the backend defaults
createDefaultUserConfig(cfgs, u) ==
    IF GetUserBasePath(u) # Nil THEN [cfgs |-> cfgs, err |-> GetUserBasePath(u)]
    ELSE SetUserStorageConfig(cfgs, u,
             UserStorageConfig(defaultBackendType, Join(UserBasePath(u), <<"storage">>),
                               0, 0)
               @@ [BackendConfig |-> BackendDefaults])

\* if config, exists := dm.userConfigs[userID]; exists { config.Status = s }
SetStatus(cfgs, u, s) ==
    IF Has(cfgs, u) THEN [cfgs EXCEPT ![u].Status = s] ELSE cfgs

\* a goroutine returns from its call
Return(p, b, e) ==
    /\ result' = [result EXCEPT ![p] = [backend |-> b, err |-> e]]
    /\ pc' = [pc EXCEPT ![p] = "done"]
    /\ backend' = [backend EXCEPT ![p] = NilBackend]
    /\ err' = [err EXCEPT ![p] = Nil]

InFlight(q) == pc[q] \notin {"idle", "done"}

\* a goroutine begins GetUserBackend(userID) or UnmountUserBackend(userID)
Begin(p, name, u) ==
    /\ pc[p] \in {"idle", "done"}
    /\ ncalls < MaxCalls
    /\ ncalls' = ncalls + 1
    /\ call' = [call EXCEPT ![p] = [name |-> name, userID |-> u]]
    /\ pc' = [pc EXCEPT ![p] = IF name = "GetUserBackend" THEN "gub_rlock" ELSE "uub_lock"]
    /\ result' = [result EXCEPT ![p] = NoResult]
    /\ cmdlog' = [cmdlog EXCEPT ![p] = << >>]
    /\ built' = [built EXCEPT ![p] = FALSE]
    /\ fresh' = [fresh EXCEPT ![p] =
                   /\ ~Has(mtUserConfigs, u) /\ ~Has(userBackends, u)
                   /\ ~Has(userConfigs, u) /\ ~Has(mountPoints, u)]
    /\ inflight' = [q \in Procs |->
                      IF q = p THEN {r \in Procs \ {p} : InFlight(r)}
                      ELSE inflight[q] \ {p}]
    /\ UNCHANGED <<registry, mu, mtUserConfigs, config, others, osMounts, nextHandle, locals, ncfg>>

\* GetUserBackend: dm.mu.RLock()
GUB_RLock(p) ==
    /\ pc[p] = "gub_rlock"
    /\ CanRLock
    /\ mu' = [mu EXCEPT !.readers = @ \cup {p}]
    /\ pc' = [pc EXCEPT ![p] = "gub_read"]
    /\ UNCHANGED <<registry, mtUserConfigs, config, others, osMounts, nextHandle, call, locals,
                   result, cmdlog, ghosts, ncalls, ncfg>>

\* GetUserBackend: the lookup under the read lock, then dm.mu.RUnlock()
GUB_Read(p) ==
    LET u == call[p].userID IN
    /\ pc[p] = "gub_read"
    /\ mu' = [mu EXCEPT !.readers = @ \ {p}]
    /\ backend' = [backend EXCEPT ![p] =
                     IF Has(userBackends, u) THEN userBackends[u] ELSE NilBackend]
    /\ pc' = [pc EXCEPT ![p] = IF Has(userBackends, u) THEN "ula_lock" ELSE "cub_lock"]
    /\ UNCHANGED <<registry, mtUserConfigs, config, others, osMounts, nextHandle, call, err,
                   result, cmdlog, ghosts, ncalls, ncfg>>

\* updateLastAccessed takes the exclusive lock, touches the record, unlocks;
\* GetUserBackend then returns the handle it found
UpdateLastAccessed(p) ==
    /\ pc[p] = "ula_lock"
    /\ CanLock
    /\ Return(p, backend[p], Nil)
    /\ UNCHANGED <<registry, mu, mtUserConfigs, config, others, osMounts, nextHandle, call,
                   cmdlog, ghosts, ncalls, ncfg>>

\* createUserBackend: dm.mu.Lock() and the re-check, which finds a handle
CUB_Exists(p) ==
    LET u == call[p].userID IN
    /\ pc[p] = "cub_lock"
    /\ CanLock
    /\ Has(userBackends, u)
    /\ Return(p, userBackends[u], Nil)
    /\ UNCHANGED <<registry, mu, mtUserConfigs, config, others, osMounts, nextHandle, call,
                   cmdlog, ghosts, ncalls, ncfg>>

\* createUserBackend: dm.mu.Lock(), the re-check, the storage configuration
\* (the default one when the tenant has none), and the Pending
\* UserBackendConfig stored; the lock stays held for createBackendByType
CUB_Config(p) ==
    LET u == call[p].userID
        got == GetUserStorageConfig(mtUserConfigs, u)
        def == createDefaultUserConfig(mtUserConfigs, u)
        cfgs == IF got = Nil THEN mtUserConfigs ELSE def.cfgs
    IN  /\ pc[p] = "cub_lock"
        /\ CanLock
        /\ ~Has(userBackends, u)
        /\ mtUserConfigs' = cfgs
        /\ IF got # Nil /\ def.err # Nil
           THEN /\ Return(p, NilBackend,
                          Wrap("failed to create default config for user", def.err))
                /\ UNCHANGED <<registry, mu, built>>
           ELSE /\ mu' = [mu EXCEPT !.writer = p]
                /\ userConfigs' = Put(userConfigs, u,
                                      [BackendType |-> cfgs[u].BackendType,
                                       Status |-> BackendStatusPending])
                /\ pc' = [pc EXCEPT ![p] = "cub_build"]
                /\ built' = [built EXCEPT ![p] = TRUE]
                /\ UNCHANGED <<userBackends, mountPoints, locals, result>>
        /\ UNCHANGED <<config, others, osMounts, nextHandle, call, cmdlog, fresh, inflight,
                       ncalls, ncfg>>

\* faulty variant: the failure path forgets userConfig.Status = BackendStatusError
CUB_Fail_KeepsPending(p, e) ==
    /\ Return(p, NilBackend, Wrap("failed to create backend for user", e))
    /\ mu' = Unlocked
    /\ UNCHANGED <<userBackends, userConfigs>>

\* faulty variant: the failure path returns with the lock held
CUB_Fail_KeepsLock(p, e) ==
    /\ userConfigs' = SetStatus(userConfigs, call[p].userID, BackendStatusError)
    /\ Return(p, NilBackend, Wrap("failed to create backend for user", e))
    /\ UNCHANGED <<userBackends, mu>>

\* createUserBackend after createBackendByType failed: the record is marked
\* Error, the error is wrapped and returned; the deferred Unlock
CUB_Fail(p, e) ==
    /\ userConfigs' = SetStatus(userConfigs, call[p].userID, BackendStatusError)
    /\ Return(p, NilBackend, Wrap("failed to create backend for user", e))
    /\ mu' = Unlocked
    /\ UNCHANGED userBackends

\* faulty variant: the record is marked Ready but the handle is not stored
CUB_Succeed_NoHandle(p, b) ==
    /\ userConfigs' = SetStatus(userConfigs, call[p].userID, BackendStatusReady)
    /\ Return(p, b, Nil)
    /\ mu' = Unlocked
    /\ UNCHANGED userBackends

\* createUserBackend after createBackendByType succeeded: the handle is
\* registered and the record Ready; the deferred Unlock
CUB_Succeed(p, b) ==
    /\ userBackends' = Put(userBackends, call[p].userID, b)
    /\ userConfigs' = SetStatus(userConfigs, call[p].userID, BackendStatusReady)
    /\ Return(p, b, Nil)
    /\ mu' = Unlocked

\* the message each createXBackend puts in front of a mount error
MountMsg(kind) ==
    CASE kind = "cephfs" -> "failed to mount CephFS"
      [] kind = "nfs" -> "failed to mount NFS"
      [] OTHER -> "failed to mount Lustre"

\* executeMount: the command's error wrapped with its output
executeMount(outcome) ==
    CASE outcome = "ok" -> Nil
      [] outcome = "timeout" -> Wrap("mount failed", ErrDeadline)
      [] OTHER -> Wrap("mount failed", ErrExit)

\* mountCephFS / mountNFS / mountLustre: MkdirAll, then the mount command
mountFS(outcome) == IF outcome = "mkdir" THEN ErrMkdir ELSE executeMount(outcome)

\* faulty variant: a failed mount is tried again within the same call
CUB_MountFailed_Retry(p, e) ==
    UNCHANGED <<userBackends, userConfigs, mu, locals, result, pc>>

\* createXBackend: if err := dm.mountX(...); err != nil { return nil, ... },
\* which createBackendByType hands to createUserBackend's error path
CUB_MountFailed(p, e) == CUB_Fail(p, e)

\* createCephFSBackend / createNFSBackend / createLustreBackend up to the
\* mount: on success the mount point is recorded, on failure the error goes
\* back through createBackendByType to createUserBackend
CUB_Mount(p) ==
    LET u == call[p].userID
        kind == userConfigs[u].BackendType
    IN  /\ pc[p] = "cub_build"
        /\ kind \in MountKinds
        /\ \E outcome \in {"ok", "mkdir", "exit", "timeout"} :
             /\ cmdlog' = [cmdlog EXCEPT ![p] =
                             IF outcome = "mkdir" THEN @
                             ELSE Append(@, [cmd |-> "mount", outcome |-> outcome])]
             /\ IF mountFS(outcome) = Nil
                THEN /\ osMounts' = [osMounts EXCEPT ![u] = @ + 1]
                     /\ mountPoints' = Put(mountPoints, u, u)
                     /\ pc' = [pc EXCEPT ![p] = "cub_handle"]
                     /\ UNCHANGED <<userBackends, userConfigs, mu, locals, result>>
                ELSE /\ CUB_MountFailed(p, Wrap(MountMsg(kind), mountFS(outcome)))
                     /\ UNCHANGED <<osMounts, mountPoints>>
        /\ UNCHANGED <<mtUserConfigs, config, others, nextHandle, call, ghosts, ncalls, ncfg>>

\* the ways the handle constructor of a backend type can end
HandleOutcomes(kind) ==
    IF kind \in {"posix", "cephfs", "nfs"} THEN {"ok", "mkdir", "new"} ELSE {"ok", "new"}

\* createPosixBackend / createLustreEnhancedBackend / createMinIOBackend
createHandle(outcome) ==
    CASE outcome = "ok" -> Nil
      [] outcome = "mkdir" -> Wrap("failed to create mount point", ErrMkdir)
      [] OTHER -> ErrNew

\* the handle is constructed: directly for posix and minio, on the mounted
\* filesystem for cephfs, nfs and lustre; createUserBackend then returns
CUB_Handle(p) ==
    LET u == call[p].userID
        kind == userConfigs[u].BackendType
    IN  /\ \/ pc[p] = "cub_build" /\ kind \in {"posix", "minio"}
           \/ pc[p] = "cub_handle"
        /\ \E outcome \in HandleOutcomes(kind) :
             IF createHandle(outcome) = Nil
             THEN /\ nextHandle' = nextHandle + 1
                  /\ CUB_Succeed(p, nextHandle + 1)
             ELSE /\ CUB_Fail(p, createHandle(outcome))
                  /\ UNCHANGED nextHandle
        /\ UNCHANGED <<mountPoints, mtUserConfigs, config, others, osMounts, call,
                       cmdlog, ghosts, ncalls, ncfg>>

\* createBackendByType: rustfs is a placeholder, any other type is unsupported
CUB_Unsupported(p) ==
    LET u == call[p].userID
        kind == userConfigs[u].BackendType
    IN  /\ pc[p] = "cub_build"
        /\ kind \notin MountKinds \cup {"posix", "minio"}
        /\ CUB_Fail(p, IF kind = "rustfs" THEN Leaf("RustFS backend not implemented yet")
                       ELSE Leaf("unsupported backend type"))
        /\ UNCHANGED <<mountPoints, mtUserConfigs, config, others, osMounts, nextHandle, call,
                       cmdlog, ghosts, ncalls, ncfg>>

\* faulty variant: the handle map is consulted instead of the mount points
IsMounted_ByHandle(u) == Has(userBackends, u)

\* UnmountUserBackend: mountPoint, exists := dm.mountPoints[userID]
IsMounted(u) == Has(mountPoints, u)

\* UnmountUserBackend: dm.mu.Lock(); no mount point recorded, return nil
UUB_NotMounted(p) ==
    /\ pc[p] = "uub_lock"
    /\ CanLock
    /\ ~IsMounted(call[p].userID)
    /\ Return(p, NilBackend, Nil)
    /\ UNCHANGED <<registry, mu, mtUserConfigs, config, others, osMounts, nextHandle, call,
                   cmdlog, ghosts, ncalls, ncfg>>

\* UnmountUserBackend: dm.mu.Lock(); a mount point is recorded, the status
\* becomes Unmounting
UUB_Start(p) ==
    LET u == call[p].userID IN
    /\ pc[p] = "uub_lock"
    /\ CanLock
    /\ IsMounted(u)
    /\ mu' = [mu EXCEPT !.writer = p]
    /\ userConfigs' = SetStatus(userConfigs, u, BackendStatusUnmounting)
    /\ pc' = [pc EXCEPT ![p] = "uub_umount"]
    /\ UNCHANGED <<userBackends, mountPoints, mtUserConfigs, config, others, osMounts,
                   nextHandle, call, locals, result, cmdlog, ghosts, ncalls, ncfg>>

\* the error of a umount command
umountErr(outcome) ==
    CASE outcome = "ok" -> Nil
      [] outcome = "timeout" -> ErrDeadline
      [] OTHER -> ErrExit

\* UnmountUserBackend: the clean up after a successful umount, the status
\* Unmounted, return nil; the deferred Unlock
UUB_Cleanup(p) ==
    LET u == call[p].userID IN
    /\ userBackends' = Delete(userBackends, u)
    /\ mountPoints' = Delete(mountPoints, u)
    /\ userConfigs' = SetStatus(userConfigs, u, BackendStatusUnmounted)
    /\ osMounts' = [osMounts EXCEPT ![u] = @ - 1]
    /\ mu' = Unlocked
    /\ Return(p, NilBackend, Nil)

\* UnmountUserBackend: both umount commands failed, the error is returned
\* from inside the retry; the deferred Unlock
UUB_Fail(p, e) ==
    /\ mu' = Unlocked
    /\ Return(p, NilBackend, Wrap("failed to unmount", e))
    /\ UNCHANGED <<registry, osMounts>>

\* faulty variant: the error of the graceful umount is returned without a retry
UUB_Retry_GiveUp(p, e) == UUB_Fail(p, e)

\* UnmountUserBackend: the graceful umount failed, "Try force unmount"
UUB_Retry(p, e) ==
    /\ err' = [err EXCEPT ![p] = e]
    /\ pc' = [pc EXCEPT ![p] = "uub_force"]
    /\ UNCHANGED <<registry, mu, osMounts, backend, result>>

\* UnmountUserBackend: exec umount <mountPoint>
UUB_Umount(p) ==
    /\ pc[p] = "uub_umount"
    /\ \E outcome \in {"ok", "exit", "timeout"} :
         /\ cmdlog' = [cmdlog EXCEPT ![p] =
                         Append(@, [cmd |-> "umount", outcome |-> outcome])]
         /\ IF umountErr(outcome) = Nil
            THEN UUB_Cleanup(p)
            ELSE UUB_Retry(p, umountErr(outcome))
    /\ UNCHANGED <<mtUserConfigs, config, others, nextHandle, call, ghosts, ncalls, ncfg>>

\* UnmountUserBackend: exec umount -f <mountPoint>, under the same deadline
\* as the first command (once that has passed the command fails at once)
UUB_Force(p) ==
    /\ pc[p] = "uub_force"
    /\ \E outcome \in (IF err[p] = ErrDeadline THEN {"timeout"}
                       ELSE {"ok", "exit", "timeout"}) :
         /\ cmdlog' = [cmdlog EXCEPT ![p] =
                         Append(@, [cmd |-> "umount -f", outcome |-> outcome])]
         /\ IF umountErr(outcome) = Nil
            THEN UUB_Cleanup(p)
            ELSE UUB_Fail(p, umountErr(outcome))
    /\ UNCHANGED <<mtUserConfigs, config, others, nextHandle, call, ghosts, ncalls, ncfg>>

(* ----------------- configuration calls from the IAM layer -------------- *)
\* the backend types the configuration calls are tried with
CfgKinds == {"posix", UnknownKind}

\* SetUserStorageConfig(userID, config) with a non-nil config
CfgSet(u, kind, path) ==
    /\ ncfg < MaxCfgOps
    /\ ncfg' = ncfg + 1
    /\ mtUserConfigs' =
         SetUserStorageConfig(mtUserConfigs, u, UserStorageConfig(kind, path, 0, 0)).cfgs
    /\ UNCHANGED <<registry, mu, config, others, osMounts, nextHandle, pc, call, locals, result,
                   cmdlog, ghosts, ncalls>>

\* CreateUserNamespace(userID, config), config nil or not
CfgCreate(u, isNil, kind, path) ==
    /\ ncfg < MaxCfgOps
    /\ ncfg' = ncfg + 1
    /\ mtUserConfigs' =
         CreateUserNamespace(mtUserConfigs, u, isNil,
                             UserStorageConfig(kind, path, 0, 0)).cfgs
    /\ UNCHANGED <<registry, mu, config, others, osMounts, nextHandle, pc, call, locals, result,
                   cmdlog, ghosts, ncalls>>

Next ==
    \/ \E p \in Procs, u \in Users : Begin(p, "GetUserBackend", u)
    \/ \E p \in Procs, u \in Users : Begin(p, "UnmountUserBackend", u)
    \/ \E p \in Procs : GUB_RLock(p)
    \/ \E p \in Procs : GUB_Read(p)
    \/ \E p \in Procs : UpdateLastAccessed(p)
    \/ \E p \in Procs : CUB_Exists(p)
    \/ \E p \in Procs : CUB_Config(p)
    \/ \E p \in Procs : CUB_Mount(p)
    \/ \E p \in Procs : CUB_Handle(p)
    \/ \E p \in Procs : CUB_Unsupported(p)
    \/ \E p \in Procs : UUB_NotMounted(p)
    \/ \E p \in Procs : UUB_Start(p)
    \/ \E p \in Procs : UUB_Umount(p)
    \/ \E p \in Procs : UUB_Force(p)
    \/ \E u \in Users, kind \in CfgKinds : CfgSet(u, kind, UserBasePath(u))
    \/ \E u \in Users, kind \in CfgKinds, isNil \in BOOLEAN :
          CfgCreate(u, isNil, kind, UserBasePath(u))

Spec == Init /\ [][Next]_vars

\* the steps of the calls in flight: every step after the call began
Step(p) ==
    \/ GUB_RLock(p)
    \/ GUB_Read(p)
    \/ UpdateLastAccessed(p)
    \/ CUB_Exists(p)
    \/ CUB_Config(p)
    \/ CUB_Mount(p)
    \/ CUB_Handle(p)
    \/ CUB_Unsupported(p)
    \/ UUB_NotMounted(p)
    \/ UUB_Start(p)
    \/ UUB_Umount(p)
    \/ UUB_Force(p)

\* DeleteUserAccount: m.mtManager.DeleteUserNamespace(access)
CfgDelete(u) ==
    /\ ncfg < MaxCfgOps
    /\ ncfg' = ncfg + 1
    /\ mtUserConfigs' = DeleteUserNamespace(mtUserConfigs, u).cfgs
    /\ UNCHANGED <<registry, mu, config, others, osMounts, nextHandle, pc, call, locals, result,
                   cmdlog, ghosts, ncalls>>

\* the storage paths the configuration calls are tried with: none, the
\* tenant's namespace, a directory in it, a path outside the base, and a
\* path that leaves the base through ".."
StoragePaths(u) ==
    {EmptyPath, UserBasePath(u), Append(UserBasePath(u), "data"), <<"etc">>,
     BasePath \o <<"..", "etc">>}

\* multi-tenant mode is on, the default backend is mounted by a command
TenantInit ==
    /\ Init
    /\ Enabled
    /\ defaultBackendType = "cephfs"

\* the calls of the registry and the calls of the IAM layer, with any record
TenantNext ==
    \/ \E p \in Procs, u \in Users : Begin(p, "GetUserBackend", u)
    \/ \E p \in Procs, u \in Users : Begin(p, "UnmountUserBackend", u)
    \/ \E p \in Procs : Step(p)
    \/ \E u \in Users, kind \in CfgKinds : \E path \in StoragePaths(u) :
          CfgSet(u, kind, path)
    \/ \E u \in Users, kind \in CfgKinds, isNil \in BOOLEAN : \E path \in StoragePaths(u) :
          CfgCreate(u, isNil, kind, path)
    \/ \E u \in Users : CfgDelete(u)

TenantSpec == TenantInit /\ [][TenantNext]_vars

\* the default backend is the object proxy or a mounted filesystem
ProxyInit ==
    /\ Init
    /\ Enabled
    /\ defaultBackendType \in {"minio", "cephfs", "rustfs"}

\* the calls of the registry, and SetUserStorageConfig making a tenant a
\* tenant of the object proxy
ProxyNext ==
    \/ \E p \in Procs, u \in Users : Begin(p, "GetUserBackend", u)
    \/ \E p \in Procs, u \in Users : Begin(p, "UnmountUserBackend", u)
    \/ \E p \in Procs : Step(p)
    \/ \E u \in Users : CfgSet(u, "minio", UserBasePath(u))

ProxySpec == ProxyInit /\ [][ProxyNext]_vars

\* tenants of a filesystem that is mounted by a command, or of no known kind
LiveInit ==
    /\ Init
    /\ Enabled
    /\ defaultBackendType \in {"cephfs", UnknownKind}

\* a goroutine that can take a step takes one; a command that was started
\* ends, by itself or at its deadline
LiveSpec == LiveInit /\ [][Next]_vars /\ WF_vars(\E p \in Procs : Step(p))

(* ============ the quota guard: auth.DefaultMultiTenantManager =========== *)
(* Goroutines call CheckQuota and UpdateUsedSpace on the records of the     *)
(* manager, which has no lock. A call works on the *UserStorageConfig it    *)
(* got from the map: when the record has been replaced meanwhile, its       *)
(* stores go to the old object and never show in the map.                   *)
\* the sizes and deltas the calls are tried with, the quotas of the records
QuotaSizes == {10, 90, 110, MaxInt64}
\* the size a goroutine's CheckQuota has let through, or an adjustment
QuotaDeltas(p, u) ==
    {20, -20} \cup (IF authorised[p].userID = u THEN {authorised[p].size} ELSE {})
Quotas == {0, 100}
\* the tenants whose quota is exercised
QuotaUsers == {"u1"}
QuotaKinds == {"posix", UnknownKind}

\* NewMultiTenantManager: no record; the registry is left alone
QuotaInit ==
    /\ userBackends = EmptyMap
    /\ userConfigs = EmptyMap
    /\ mountPoints = EmptyMap
    /\ mu = Unlocked
    /\ mtUserConfigs = EmptyMap
    /\ Enabled = TRUE
    /\ defaultBackendType = "posix"
    /\ DefaultQuota \in Quotas
    /\ osMounts = [u \in Users |-> 0]
    /\ nextHandle = 0
    /\ pc = [p \in Procs |-> "idle"]
    /\ call = [p \in Procs |-> NoCall]
    /\ backend = [p \in Procs |-> NilBackend]
    /\ err = [p \in Procs |-> Nil]
    /\ result = [p \in Procs |-> NoResult]
    /\ cmdlog = [p \in Procs |-> << >>]
    /\ built = [p \in Procs |-> FALSE]
    /\ fresh = [p \in Procs |-> FALSE]
    /\ inflight = [p \in Procs |-> {}]
    /\ ncalls = 0
    /\ ncfg = 0
    /\ QuotaIdle
    /\ StripeIdle
    /\ ReadIdle
    /\ AccessIdle
    /\ WrapIdle
    /\ CmIdle

\* faulty variant: the comparison with the quota is left out
CheckQuota_NoLimit(cfgs, u, additionalSize) == GetUserStorageConfig(cfgs, u)

\* CheckQuota: nil, ErrUserStorageNotFound or ErrQuotaExceeded
CheckQuota(cfgs, u, additionalSize) ==
    IF GetUserStorageConfig(cfgs, u) # Nil THEN GetUserStorageConfig(cfgs, u)
    ELSE IF cfgs[u].Quota = 0 THEN Nil
    ELSE IF Int64(cfgs[u].UsedSpace + additionalSize) > cfgs[u].Quota THEN ErrQuotaExceeded
    ELSE Nil

\* the writes of the other goroutines that CheckQuota has let through for
\* the tenant and UpdateUsedSpace has not yet accounted
InFlightWrites(p, u) ==
    {authorised[q] : q \in {r \in Procs \ {p} : authorised[r].userID = u}}

\* a goroutine's write is over (or was none)
EndWrite(p) ==
    /\ authorised' = [authorised EXCEPT ![p] = NoWrite]
    /\ together' = [together EXCEPT ![p] = {}]

\* a goroutine calls CheckQuota(userID, additionalSize); the call reads the
\* record and returns
CQ_Call(p, u, n) ==
    LET e == CheckQuota(mtUserConfigs, u, n)
        w == [userID |-> u, size |-> n, id |-> ncalls + 1]
    IN  /\ pc[p] \in {"idle", "done"}
        /\ ncalls < MaxQuotaCalls
        /\ ncalls' = ncalls + 1
        /\ call' = [call EXCEPT ![p] = [name |-> "CheckQuota", userID |-> u, size |-> n,
                                        id |-> ncalls + 1]]
        /\ Return(p, NilBackend, e)
        /\ IF e = Nil
           THEN /\ authorised' = [authorised EXCEPT ![p] = w]
                /\ together' = [q \in Procs |->
                                  IF q = p THEN {w} \cup InFlightWrites(p, u)
                                  ELSE IF authorised[q].userID = u
                                       THEN together[q] \cup {w}
                                       ELSE together[q]]
           ELSE EndWrite(p)
        /\ UNCHANGED <<mtUserConfigs, mtPtr, nextPtr, qlocal, unchecked, config, ncfg,
                       dmVars, stripeVars, readVars, accessVars, wrapVars, cmVars>>

\* the record a goroutine's UpdateUsedSpace works on is still the one stored
Current(p) ==
    /\ Has(mtPtr, call[p].userID)
    /\ mtPtr[call[p].userID] = qlocal[p].ptr

\* a goroutine calls UpdateUsedSpace(userID, delta): GetUserStorageConfig,
\* then the load of config.UsedSpace += delta
UUS_Load(p, u, d) ==
    /\ pc[p] \in {"idle", "done"}
    /\ ncalls < MaxQuotaCalls
    /\ ncalls' = ncalls + 1
    /\ call' = [call EXCEPT ![p] = [name |-> "UpdateUsedSpace", userID |-> u, size |-> d,
                                    id |-> ncalls + 1]]
    /\ IF GetUserStorageConfig(mtUserConfigs, u) # Nil
       THEN /\ Return(p, NilBackend, GetUserStorageConfig(mtUserConfigs, u))
            /\ UNCHANGED qlocal
       ELSE /\ qlocal' = [qlocal EXCEPT ![p] =
                            [ptr |-> mtPtr[u], used |-> mtUserConfigs[u].UsedSpace]]
            /\ pc' = [pc EXCEPT ![p] = "uus_store"]
            /\ result' = [result EXCEPT ![p] = NoResult]
            /\ UNCHANGED locals
    /\ IF /\ authorised[p].userID = u /\ authorised[p].size = d
          /\ Has(mtUserConfigs, u)
       THEN UNCHANGED <<authorised, together, unchecked>>
       ELSE /\ EndWrite(p)
            /\ unchecked' = IF d > 0 /\ Has(mtUserConfigs, u)
                            THEN unchecked \cup {u} ELSE unchecked
    /\ UNCHANGED <<mtUserConfigs, mtPtr, nextPtr, config, ncfg, dmVars, stripeVars,
                   readVars, accessVars, wrapVars, cmVars>>

\* config.UsedSpace + delta, in int64
UUS_Add(used, delta) == Int64(used + delta)

\* UpdateUsedSpace: the store of config.UsedSpace += delta
UUS_Store(p) ==
    LET u == call[p].userID IN
    /\ pc[p] = "uus_store"
    /\ mtUserConfigs' =
         IF Current(p)
         THEN [mtUserConfigs EXCEPT ![u].UsedSpace = UUS_Add(qlocal[p].used, call[p].size)]
         ELSE mtUserConfigs
    /\ pc' = [pc EXCEPT ![p] = "uus_check"]
    /\ UNCHANGED <<mtPtr, nextPtr, qlocal, authorised, together, unchecked, config, call,
                   locals, result, ncalls, ncfg, dmVars, stripeVars, readVars, accessVars, wrapVars, cmVars>>

\* UpdateUsedSpace: if config.UsedSpace < 0; when it is not, return nil
UUS_Check(p) ==
    LET u == call[p].userID IN
    /\ pc[p] = "uus_check"
    /\ IF Current(p) /\ mtUserConfigs[u].UsedSpace < 0
       THEN /\ pc' = [pc EXCEPT ![p] = "uus_zero"]
            /\ UNCHANGED <<locals, result, authorised, together>>
       ELSE /\ Return(p, NilBackend, Nil)
            /\ EndWrite(p)
    /\ UNCHANGED <<mtUserConfigs, mtPtr, nextPtr, qlocal, unchecked, config, call,
                   ncalls, ncfg, dmVars, stripeVars, readVars, accessVars, wrapVars, cmVars>>

\* UpdateUsedSpace: config.UsedSpace = 0, return nil
UUS_Zero(p) ==
    LET u == call[p].userID IN
    /\ pc[p] = "uus_zero"
    /\ mtUserConfigs' =
         IF Current(p) THEN [mtUserConfigs EXCEPT ![u].UsedSpace = 0] ELSE mtUserConfigs
    /\ Return(p, NilBackend, Nil)
    /\ EndWrite(p)
    /\ UNCHANGED <<mtPtr, nextPtr, qlocal, unchecked, config, call, ncalls, ncfg,
                   dmVars, stripeVars, readVars, accessVars, wrapVars, cmVars>>

\* the record stored for a user is another object than the one before
Stored(u, cfgs) ==
    /\ mtUserConfigs' = cfgs
    /\ nextPtr' = nextPtr + 1
    /\ mtPtr' = Put(mtPtr, u, nextPtr + 1)

\* SetUserStorageConfig(userID, config) as CreateAccount and
\* createDefaultUserConfig call it: UsedSpace 0
Q_Set(u, kind, quota) ==
    LET r == SetUserStorageConfig(mtUserConfigs, u, UserStorageConfig(kind, UserBasePath(u), quota, 0)) IN
    /\ ncfg < MaxQuotaCfg
    /\ ncfg' = ncfg + 1
    /\ IF r.err = Nil THEN Stored(u, r.cfgs) ELSE UNCHANGED <<mtUserConfigs, mtPtr, nextPtr>>
    /\ UNCHANGED <<qlocal, authorised, together, unchecked, config, pc, call, locals,
                   result, ncalls, dmVars, stripeVars, readVars, accessVars, wrapVars, cmVars>>

\* CreateUserNamespace(userID, config), config nil or not
Q_Create(u, isNil, quota) ==
    LET r == CreateUserNamespace(mtUserConfigs, u, isNil,
                                 UserStorageConfig("posix", UserBasePath(u), quota, 0)) IN
    /\ ncfg < MaxQuotaCfg
    /\ ncfg' = ncfg + 1
    /\ IF r.err = Nil THEN Stored(u, r.cfgs) ELSE UNCHANGED <<mtUserConfigs, mtPtr, nextPtr>>
    /\ UNCHANGED <<qlocal, authorised, together, unchecked, config, pc, call, locals,
                   result, ncalls, dmVars, stripeVars, readVars, accessVars, wrapVars, cmVars>>

QuotaNext ==
    \/ \E p \in Procs, u \in QuotaUsers, n \in QuotaSizes : CQ_Call(p, u, n)
    \/ \E p \in Procs, u \in QuotaUsers : \E d \in QuotaDeltas(p, u) : UUS_Load(p, u, d)
    \/ \E p \in Procs : UUS_Store(p)
    \/ \E p \in Procs : UUS_Check(p)
    \/ \E p \in Procs : UUS_Zero(p)
    \/ \E u \in QuotaUsers, kind \in QuotaKinds, quota \in Quotas : Q_Set(u, kind, quota)
    \/ \E u \in QuotaUsers, isNil \in BOOLEAN, quota \in Quotas : Q_Create(u, isNil, quota)

QuotaSpec == QuotaInit /\ [][QuotaNext]_vars

(* ============= the stripe planner: LustreEnhancedBackend ============== *)
\* Go's integer division and remainder truncate toward zero
Abs(a) == IF a < 0 THEN -a ELSE a
GoDiv(a, b) ==
    IF (a < 0) = (b < 0) THEN Abs(a) \div Abs(b) ELSE -(Abs(a) \div Abs(b))
GoMod(a, b) == a - b * GoDiv(a, b)

\* the object sizes planned, in bytes, around the tier boundaries (the largest
\* is 2 GiB - 1) and the configured stripe counts
PlanSizes ==
    {-1, 0, 500 * 1024,
     1*1024*1024 - 1, 1*1024*1024, 100*1024*1024 - 1, 100*1024*1024,
     1*1024*1024*1024 - 1, 1*1024*1024*1024, 1*1024*1024*1024 + (1*1024*1024*1024 - 1)}
PlanCaps == {-1, 0, 1, 2, 3, 4, 6, 8, 16}

\* NewLustreEnhancedBackend(backend, config)
PlanInit ==
    /\ userBackends = EmptyMap
    /\ userConfigs = EmptyMap
    /\ mountPoints = EmptyMap
    /\ mu = Unlocked
    /\ mtUserConfigs = EmptyMap
    /\ Enabled = TRUE
    /\ defaultBackendType = "lustre"
    /\ DefaultQuota = 0
    /\ osMounts = [u \in Users |-> 0]
    /\ nextHandle = 0
    /\ pc = [p \in Procs |-> "idle"]
    /\ call = [p \in Procs |-> NoCall]
    /\ backend = [p \in Procs |-> NilBackend]
    /\ err = [p \in Procs |-> Nil]
    /\ result = [p \in Procs |-> NoResult]
    /\ cmdlog = [p \in Procs |-> << >>]
    /\ built = [p \in Procs |-> FALSE]
    /\ fresh = [p \in Procs |-> FALSE]
    /\ inflight = [p \in Procs |-> {}]
    /\ ncalls = 0
    /\ ncfg = 0
    /\ QuotaIdle
    /\ lustreConfig \in [StripeCount : PlanCaps, StripeSize : {0, 1024 * 1024}]
    /\ planned = << >>
    /\ ReadIdle
    /\ AccessIdle
    /\ WrapIdle
    /\ CmIdle

\* faulty variant: the tier boundaries are inclusive
calculateOptimalStriping_Inclusive(cfg, size) ==
    LET tier == IF size <= 1*1024*1024 THEN 1
                ELSE IF size <= 100*1024*1024 THEN 2
                ELSE IF size <= 1*1024*1024*1024 THEN 4
                ELSE 8
    IN  [StripeCount |-> IF cfg.StripeCount > 0 /\ tier > cfg.StripeCount
                         THEN cfg.StripeCount ELSE tier,
         StripeSize |-> cfg.StripeSize,
         StripeIndex |-> -1]

\* faulty variant: the configured maximum is not applied
calculateOptimalStriping_NoCap(cfg, size) ==
    LET tier == IF size < 1*1024*1024 THEN 1
                ELSE IF size < 100*1024*1024 THEN 2
                ELSE IF size < 1*1024*1024*1024 THEN 4
                ELSE 8
    IN  [StripeCount |-> tier, StripeSize |-> cfg.StripeSize, StripeIndex |-> -1]

\* calculateOptimalStriping(size) with l.lustreConfig = cfg
calculateOptimalStriping(cfg, size) ==
    LET tier == IF size < 1*1024*1024 THEN 1
                ELSE IF size < 100*1024*1024 THEN 2
                ELSE IF size < 1*1024*1024*1024 THEN 4
                ELSE 8
    IN  [StripeCount |-> IF cfg.StripeCount > 0 /\ tier > cfg.StripeCount
                         THEN cfg.StripeCount ELSE tier,
         StripeSize |-> cfg.StripeSize,
         StripeIndex |-> -1]

\* PutObject with a known content length plans the striping of the object
Plan(size) ==
    /\ Len(planned) < MaxPlans
    /\ planned' = Append(planned, [size |-> size,
                                   stripeInfo |-> calculateOptimalStriping(lustreConfig, size)])
    /\ UNCHANGED <<lustreConfig, mtUserConfigs, config, pc, call, locals, result, ncalls,
                   ncfg, dmVars, quotaVars, readVars, accessVars, wrapVars, cmVars>>

PlanNext == \E size \in PlanSizes : Plan(size)

PlanSpec == PlanInit /\ [][PlanNext]_vars

(* =========== striped reads: LustreEnhancedBackend (parallel I/O) ======= *)
\* faulty variant: the chunk is not cut at the end of its stripe
chunkSize_Unaligned(currentOffset, remaining, stripeSize) ==
    IF stripeSize > remaining THEN remaining ELSE stripeSize

\* calculateStripeChunks: chunkSize := stripeSize - stripeOffset, at most remaining
chunkSize(currentOffset, remaining, stripeSize) ==
    LET stripeOffset == GoMod(currentOffset, stripeSize) IN
    IF stripeSize - stripeOffset > remaining THEN remaining ELSE stripeSize - stripeOffset

\* calculateStripeChunks: the loop, for remaining > 0
RECURSIVE stripeChunksFrom(_, _, _, _)
stripeChunksFrom(currentOffset, remaining, stripeSize, stripeCount) ==
    IF remaining > 0
    THEN LET size == chunkSize(currentOffset, remaining, stripeSize) IN
         <<[Offset |-> currentOffset,
            Size |-> size,
            Stripe |-> GoMod(GoDiv(currentOffset, stripeSize), stripeCount)]>>
         \o stripeChunksFrom(currentOffset + size, remaining - size, stripeSize, stripeCount)
    ELSE << >>

\* calculateStripeChunks(offset, size, stripeInfo)
calculateStripeChunks(offset, size, info) ==
    stripeChunksFrom(offset, size, info.StripeSize, info.StripeCount)

\* the read requests tried: [offset, offset+size) striped by stripeInfo
Requests(counts) ==
    [offset : 0..MaxOffset, size : 0..MaxLen,
     stripeInfo : [StripeCount : counts, StripeSize : 1..MaxStripeSize, StripeIndex : {-1}]]

\* the variables of the other components, before any of their calls
OthersIdle ==
    /\ userBackends = EmptyMap
    /\ userConfigs = EmptyMap
    /\ mountPoints = EmptyMap
    /\ mu = Unlocked
    /\ mtUserConfigs = EmptyMap
    /\ Enabled = TRUE
    /\ defaultBackendType = "lustre"
    /\ DefaultQuota = 0
    /\ osMounts = [u \in Users |-> 0]
    /\ nextHandle = 0
    /\ pc = [p \in Procs |-> "idle"]
    /\ call = [p \in Procs |-> NoCall]
    /\ backend = [p \in Procs |-> NilBackend]
    /\ err = [p \in Procs |-> Nil]
    /\ result = [p \in Procs |-> NoResult]
    /\ cmdlog = [p \in Procs |-> << >>]
    /\ built = [p \in Procs |-> FALSE]
    /\ fresh = [p \in Procs |-> FALSE]
    /\ inflight = [p \in Procs |-> {}]
    /\ ncalls = 0
    /\ ncfg = 0
    /\ QuotaIdle
    /\ StripeIdle

\* a range and a stripe descriptor with stripeSize > 0 and stripeCount >= 1
ChunkInit ==
    /\ OthersIdle
    /\ AccessIdle
    /\ WrapIdle
    /\ CmIdle
    /\ req \in Requests(1..MaxStripeCount)
    /\ fileSize = 0
    /\ numCPU = 1
    /\ chunks = << >>
    /\ results = << >>
    /\ errors = << >>
    /\ sem = 0
    /\ wpc = << >>
    /\ reads = << >>
    /\ ret = NoRet
    /\ rpc = "idle"
    /\ ctxDone = FALSE

\* chunks := l.calculateStripeChunks(offset, size, stripeInfo)
Decompose ==
    /\ rpc = "idle"
    /\ chunks' = calculateStripeChunks(req.offset, req.size, req.stripeInfo)
    /\ rpc' = "chunks"
    /\ UNCHANGED <<ctxDone, req, fileSize, numCPU, results, errors, sem, wpc, reads, ret,
                   mtUserConfigs, config, pc, call, locals, result, ncalls, ncfg,
                   dmVars, quotaVars, stripeVars, accessVars, wrapVars, cmVars>>

ChunkNext == Decompose

ChunkSpec == ChunkInit /\ [][ChunkNext]_vars

(* ---------------- calculateStripeChunks, step by step ------------------ *)
\* the requests tried with what lfs getstripe can report: any stripe size,
\* also 0 and negative ones, and a length that may be 0 or negative
LoopRequests ==
    [offset : 0..MaxOffset, size : -1..MaxLen,
     stripeInfo : [StripeCount : 2..MaxStripeCount, StripeSize : -2..MaxStripeSize,
                   StripeIndex : {0}]]

LoopInit ==
    /\ OthersIdle
    /\ AccessIdle
    /\ WrapIdle
    /\ CmIdle
    /\ req \in LoopRequests
    /\ fileSize = 0
    /\ numCPU = 1
    /\ chunks = << >>
    /\ results = << >>
    /\ errors = << >>
    /\ sem = 0
    /\ wpc = << >>
    /\ reads = << >>
    /\ ret = NoRet
    /\ rpc = "idle"
    /\ ctxDone = FALSE

loopFrame ==
    UNCHANGED <<ctxDone, req, fileSize, numCPU, results, errors, sem, wpc, reads, ret,
                wrap, mtUserConfigs, config, pc, call, locals, result, ncalls, ncfg,
                dmVars, quotaVars, stripeVars, accessVars, cmVars>>

\* calculateStripeChunks: currentOffset := offset; remaining := size
CSC_Enter ==
    /\ rpc = "idle"
    /\ loop' = [currentOffset |-> req.offset, remaining |-> req.size]
    /\ chunks' = << >>
    /\ rpc' = "loop"
    /\ loopFrame

\* stripeSize := stripeInfo.StripeSize
loopStripeSize == req.stripeInfo.StripeSize

\* calculateStripeChunks: one pass of the loop body; the division by a
\* stripe size of 0 is a run-time panic
CSC_Iterate ==
    LET stripeSize == loopStripeSize
        stripeCount == req.stripeInfo.StripeCount
        size == chunkSize(loop.currentOffset, loop.remaining, stripeSize)
    IN  /\ rpc = "loop"
        /\ loop.remaining > 0
        /\ Len(chunks) < MaxChunks
        /\ IF stripeSize = 0
           THEN /\ rpc' = "panic"
                /\ UNCHANGED <<chunks, loop>>
           ELSE /\ chunks' = Append(chunks,
                                    [Offset |-> loop.currentOffset,
                                     Size |-> size,
                                     Stripe |-> GoMod(GoDiv(loop.currentOffset, stripeSize),
                                                      stripeCount)])
                /\ loop' = [currentOffset |-> Int64(loop.currentOffset + size),
                            remaining |-> Int64(loop.remaining - size)]
                /\ rpc' = "loop"
        /\ loopFrame

\* calculateStripeChunks: remaining > 0 is false; return chunks
CSC_Return ==
    /\ rpc = "loop"
    /\ loop.remaining <= 0
    /\ rpc' = "returned"
    /\ UNCHANGED <<chunks, loop>>
    /\ loopFrame

\* calculateStripeChunks: append(chunks, ...) when the memory is used up; the
\* run-time ends the process with "fatal error: out of memory"
CSC_OutOfMemory ==
    /\ rpc = "loop"
    /\ loop.remaining > 0
    /\ Len(chunks) = MaxChunks
    /\ loopStripeSize # 0
    /\ rpc' = "fatal"
    /\ UNCHANGED <<chunks, loop>>
    /\ loopFrame

LoopNext == CSC_Enter \/ CSC_Iterate \/ CSC_OutOfMemory \/ CSC_Return

\* the goroutine that runs the loop is scheduled as long as it can run
LoopSpec == LoopInit /\ [][LoopNext]_vars /\ WF_vars(LoopNext)

(* ------------------------- parallelReadStripes ------------------------- *)
\* the byte of the file at position i; a buffer from make([]byte, n) holds 0
FileByte(i) == i + 1

\* file.ReadAt(b, off) with len(b) = n: all n bytes, fewer with io.EOF when
\* the range passes the end of the file, or an error of the device
ReadOutcomes(off, n) == (IF off + n <= fileSize THEN {"ok"} ELSE {"eof"}) \cup {"eio"}

\* the buffer after file.ReadAt(b, off): the bytes read, the rest untouched
ReadAtData(off, n, outcome) ==
    [k \in 1..n |-> IF outcome # "eio" /\ off + k - 1 < fileSize
                    THEN FileByte(off + k - 1) ELSE 0]

ReadAtErr(outcome) ==
    CASE outcome = "ok" -> Nil
      [] outcome = "eof" -> ErrEOF
      [] outcome = "eio" -> ErrIO

\* faulty variant: sem is made without a capacity, no send on it can proceed
maxConcurrency_Unbuffered == 0 * numCPU

\* maxConcurrency := runtime.NumCPU(), at most stripeInfo.StripeCount
maxConcurrency ==
    IF numCPU > req.stripeInfo.StripeCount THEN req.stripeInfo.StripeCount ELSE numCPU

\* faulty variant: the worker does not wait for a slot
semHasSlot_Unbounded == TRUE

\* sem <- struct{}{} proceeds while the channel holds fewer than its capacity
semHasSlot == sem < maxConcurrency

\* faulty variant: the worker files its chunk under the chunk's stripe
slot_Stripe(index, c) == c.Stripe + 1

\* results[index] = data; errors[index] = err
slot(index, c) == index

\* for _, err := range errors: the first error that is not nil
RECURSIVE firstError(_)
firstError(errs) ==
    IF errs = << >> THEN Nil
    ELSE IF Head(errs) # Nil THEN Head(errs)
    ELSE firstError(Tail(errs))

\* result = append(result, data...) for each of results, in index order
RECURSIVE combine(_)
combine(rs) == IF rs = << >> THEN << >> ELSE Head(rs) \o combine(Tail(rs))

ReadInit ==
    /\ OthersIdle
    /\ AccessIdle
    /\ WrapIdle
    /\ CmIdle
    /\ req \in Requests(0..MaxStripeCount)
    /\ fileSize = FileLen
    /\ numCPU \in 1..MaxCPU
    /\ chunks = << >>
    /\ results = << >>
    /\ errors = << >>
    /\ sem = 0
    /\ wpc = << >>
    /\ reads = << >>
    /\ ret = NoRet
    /\ rpc = "idle"
    /\ ctxDone = FALSE

readFrame == <<mtUserConfigs, config, pc, call, locals, result, ncalls, ncfg,
               dmVars, quotaVars, stripeVars, accessVars, wrapVars, cmVars>>

\* stripeInfo.StripeCount <= 1: data := make([]byte, size); file.ReadAt(data, offset)
PRS_Direct ==
    /\ rpc = "idle"
    /\ req.stripeInfo.StripeCount <= 1
    /\ reads' = Append(reads, [offset |-> req.offset, size |-> req.size])
    /\ rpc' = "direct"
    /\ UNCHANGED <<ctxDone, req, fileSize, numCPU, chunks, results, errors, sem, wpc, ret>>
    /\ UNCHANGED readFrame

\* return data, err
PRS_DirectReturn(outcome) ==
    /\ rpc = "direct"
    /\ outcome \in ReadOutcomes(req.offset, req.size)
    /\ ret' = [data |-> ReadAtData(req.offset, req.size, outcome),
               err |-> ReadAtErr(outcome)]
    /\ rpc' = "done"
    /\ UNCHANGED <<ctxDone, req, fileSize, numCPU, chunks, results, errors, sem, wpc, reads>>
    /\ UNCHANGED readFrame

\* the chunks, results and errors slices, one goroutine per chunk, wg.Wait()
PRS_Spawn ==
    /\ rpc = "idle"
    /\ req.stripeInfo.StripeCount > 1
    /\ LET cs == calculateStripeChunks(req.offset, req.size, req.stripeInfo) IN
       /\ chunks' = cs
       /\ results' = [i \in DOMAIN cs |-> << >>]
       /\ errors' = [i \in DOMAIN cs |-> Nil]
       /\ wpc' = [i \in DOMAIN cs |-> "sem"]
    /\ sem' = 0
    /\ rpc' = "wait"
    /\ UNCHANGED <<ctxDone, req, fileSize, numCPU, reads, ret>>
    /\ UNCHANGED readFrame

\* a worker: sem <- struct{}{}; data := make([]byte, c.Size); file.ReadAt(data, c.Offset)
W_Acquire(i) ==
    /\ rpc = "wait"
    /\ wpc[i] = "sem"
    /\ semHasSlot
    /\ sem' = sem + 1
    /\ wpc' = [wpc EXCEPT ![i] = "read"]
    /\ reads' = Append(reads, [offset |-> chunks[i].Offset, size |-> chunks[i].Size])
    /\ UNCHANGED <<ctxDone, req, fileSize, numCPU, chunks, results, errors, ret, rpc>>
    /\ UNCHANGED readFrame

\* a worker: results[index] = data; errors[index] = err; <-sem; wg.Done()
W_Finish(i, outcome) ==
    /\ rpc = "wait"
    /\ wpc[i] = "read"
    /\ outcome \in ReadOutcomes(chunks[i].Offset, chunks[i].Size)
    /\ results' = [results EXCEPT ![slot(i, chunks[i])] =
                       ReadAtData(chunks[i].Offset, chunks[i].Size, outcome)]
    /\ errors' = [errors EXCEPT ![slot(i, chunks[i])] = ReadAtErr(outcome)]
    /\ sem' = sem - 1
    /\ wpc' = [wpc EXCEPT ![i] = "done"]
    /\ UNCHANGED <<ctxDone, req, fileSize, numCPU, chunks, reads, ret, rpc>>
    /\ UNCHANGED readFrame

\* after wg.Wait(): return nil, err for the first error, else the combined data
PRS_Collect ==
    /\ rpc = "wait"
    /\ \A i \in DOMAIN wpc : wpc[i] = "done"
    /\ ret' = IF firstError(errors) # Nil
              THEN [data |-> << >>, err |-> firstError(errors)]
              ELSE [data |-> combine(results), err |-> Nil]
    /\ rpc' = "done"
    /\ UNCHANGED <<ctxDone, req, fileSize, numCPU, chunks, results, errors, sem, wpc, reads>>
    /\ UNCHANGED readFrame

ReadNext ==
    \/ PRS_Direct
    \/ \E outcome \in {"ok", "eof", "eio"} : PRS_DirectReturn(outcome)
    \/ PRS_Spawn
    \/ \E i \in DOMAIN wpc : W_Acquire(i)
    \/ \E i \in DOMAIN wpc, outcome \in {"ok", "eof", "eio"} : W_Finish(i, outcome)
    \/ PRS_Collect

ReadSpec == ReadInit /\ [][ReadNext]_vars

\* the scheduler runs a goroutine that can run, and a ReadAt issued returns;
\* the requests begin at a stripe boundary or one byte after it
ReadLiveInit ==
    /\ ReadInit
    /\ req.offset <= 1

ReadLiveSpec == ReadLiveInit /\ [][ReadNext]_vars /\ WF_vars(ReadNext)

\* the client of the request goes away while parallelReadStripes runs: the
\* ctx of GetObject is cancelled
Cancel ==
    /\ rpc \in {"direct", "wait"}
    /\ ~ctxDone
    /\ ctxDone' = TRUE
    /\ UNCHANGED <<req, fileSize, numCPU, chunks, results, errors, sem, wpc, reads, ret, rpc>>
    /\ UNCHANGED readFrame

CancelNext ==
    \/ ReadNext
    \/ Cancel

CancelSpec == ReadLiveInit /\ [][CancelNext]_vars

(* ================= tenant isolation: ValidateUserAccess ================ *)
\* the longest resource path tried, in components
MaxPathLen == 5

\* the names of a path, and how each is spelled
Spelling ==
    [base |-> <<"b">>, users |-> <<"u", "s">>, u1 |-> <<"u", "1">>,
     u2 |-> <<"u", "2">>, u10 |-> <<"u", "1", "0">>, data |-> <<"d">>]
    @@ (".." :> <<".", ".">>) @@ ("..data" :> <<".", ".", "d">>)

PathNames == DOMAIN Spelling

\* the absolute resource paths of at most MaxPathLen names
ResourcePaths == UNION {[1..n -> PathNames] : n \in 0..MaxPathLen}

\* the characters of a relative path: its names with "/" between them
RECURSIVE PathString(_)
PathString(path) ==
    IF path = << >> THEN << >>
    ELSE IF Len(path) = 1 THEN Spelling[Head(path)]
    ELSE Spelling[Head(path)] \o <<"/">> \o PathString(Tail(path))

\* the number of leading names two paths share
RECURSIVE CommonLen(_, _)
CommonLen(a, b) ==
    IF a = << >> \/ b = << >> \/ Head(a) # Head(b) THEN 0
    ELSE 1 + CommonLen(Tail(a), Tail(b))

\* filepath.Rel(basePath, path) of two absolute paths: the characters of "."
\* when they are the same, else one ".." for each name of basePath beyond
\* the shared ones, then the rest of path
Rel(basePath, path) ==
    LET b == Clean(basePath)
        t == Clean(path)
        k == CommonLen(b, t)
    IN  IF b = t THEN <<".">>
        ELSE PathString([i \in 1..(Len(b) - k) |-> ".."] \o SubSeq(t, k + 1, Len(t)))

\* strings.HasPrefix(s, prefix), on sequences of characters
HasPrefix(str, prefix) ==
    /\ Len(str) >= Len(prefix)
    /\ SubSeq(str, 1, Len(prefix)) = prefix

\* isSubPath: the relative path is not absolute and does not begin with ".."
isSubPath(basePath, path) ==
    /\ Head(Rel(basePath, path)) # "/"
    /\ ~HasPrefix(Rel(basePath, path), <<".", ".">>)

ErrAccessDenied == Leaf("access denied: resource outside user namespace")

\* ValidateUserAccess(userID, resourcePath, manager)
ValidateUserAccess(u, resourcePath) ==
    IF ~Enabled THEN Nil
    ELSE IF GetUserBasePath(u) # Nil THEN GetUserBasePath(u)
    ELSE IF ~isSubPath(UserBasePath(u), resourcePath) THEN ErrAccessDenied
    ELSE Nil

AccessInit ==
    /\ OthersIdle
    /\ ReadIdle
    /\ WrapIdle
    /\ CmIdle
    /\ acc \in [userID : Users, resourcePath : ResourcePaths, done : {FALSE}, err : {Nil}]

\* a request of acc.userID for acc.resourcePath is validated
Validate ==
    /\ ~acc.done
    /\ acc' = [acc EXCEPT !.done = TRUE,
                          !.err = ValidateUserAccess(acc.userID, acc.resourcePath)]
    /\ UNCHANGED <<mtUserConfigs, config, pc, call, locals, result, ncalls, ncfg,
                   dmVars, quotaVars, stripeVars, readVars, wrapVars, cmVars>>

AccessNext == Validate

AccessSpec == AccessInit /\ [][AccessNext]_vars

(* ===== both managers together: two tenants with records and quotas ===== *)
\* two accounts have been created with a quota and have used some of it
IsoInit ==
    /\ userBackends = EmptyMap
    /\ userConfigs = EmptyMap
    /\ mountPoints = EmptyMap
    /\ mu = Unlocked
    /\ mtUserConfigs = [u \in Users |-> UserStorageConfig("cephfs", UserBasePath(u), 100, 40)]
    /\ Enabled = TRUE
    /\ defaultBackendType \in {"cephfs", "rustfs"}
    /\ DefaultQuota = 0
    /\ osMounts = [u \in Users |-> 0]
    /\ nextHandle = 0
    /\ pc = [p \in Procs |-> "idle"]
    /\ call = [p \in Procs |-> NoCall]
    /\ backend = [p \in Procs |-> NilBackend]
    /\ err = [p \in Procs |-> Nil]
    /\ result = [p \in Procs |-> NoResult]
    /\ cmdlog = [p \in Procs |-> << >>]
    /\ built = [p \in Procs |-> FALSE]
    /\ fresh = [p \in Procs |-> FALSE]
    /\ inflight = [p \in Procs |-> {}]
    /\ ncalls = 0
    /\ ncfg = 0
    /\ mtPtr = [u \in Users |-> IF u = "u1" THEN 1 ELSE 2]
    /\ nextPtr = 2
    /\ qlocal = [p \in Procs |-> NoLocal]
    /\ authorised = [p \in Procs |-> NoWrite]
    /\ together = [p \in Procs |-> {}]
    /\ unchecked = {}
    /\ StripeIdle
    /\ ReadIdle
    /\ AccessIdle
    /\ WrapIdle
    /\ CmIdle

\* DeleteUserAccount: m.mtManager.DeleteUserNamespace(access); a record stored
\* for the user afterwards is another object
Q_Delete(u) ==
    LET r == DeleteUserNamespace(mtUserConfigs, u) IN
    /\ ncfg < MaxCfgOps
    /\ ncfg' = ncfg + 1
    /\ mtUserConfigs' = r.cfgs
    /\ nextPtr' = nextPtr + 1
    /\ mtPtr' = Put(mtPtr, u, nextPtr + 1)
    /\ UNCHANGED <<qlocal, authorised, together, unchecked, config, pc, call, locals,
                   result, ncalls, dmVars, stripeVars, readVars, accessVars, wrapVars, cmVars>>

\* the sizes and adjustments the two tenants' calls are tried with
IsoSizes == {10, 90}

\* the calls of the registry and of the quota guard, for both tenants
IsoNext ==
    \/ /\ ncalls < MaxIsoCalls
       /\ \/ \E p \in Procs, u \in Users : Begin(p, "GetUserBackend", u)
          \/ \E p \in Procs, u \in Users : Begin(p, "UnmountUserBackend", u)
          \/ \E p \in Procs, u \in Users, n \in IsoSizes : CQ_Call(p, u, n)
          \/ \E p \in Procs, u \in Users : \E d \in QuotaDeltas(p, u) : UUS_Load(p, u, d)
    \/ \E p \in Procs : Step(p)
    \/ \E p \in Procs : UUS_Store(p)
    \/ \E p \in Procs : UUS_Check(p)
    \/ \E p \in Procs : UUS_Zero(p)
    \/ \E u \in Users : Q_Delete(u)

IsoSpec == IsoInit /\ [][IsoNext]_vars

(* ============ the Lustre wrapper: PutObject and GetObject ============= *)
\* a pointer is Nil or <<v>>
Deref(ptr) == ptr[1]

\* filepath.Dir of a path of at least one component
Dir(path) == SubSeq(path, 1, Len(path) - 1)

\* object sizes on both sides of both thresholds
WrapSizes == {0, 2 * 1024 * 1024, 2 * 1024 * 1024 + 1,
              10 * 1024 * 1024, 10 * 1024 * 1024 + 1}

\* what the wrapped backend answers: an output or an error
UnderResults == {[out |-> "out1", err |-> Nil], [out |-> "out2", err |-> Nil],
                 [out |-> None, err |-> ErrIO]}

\* the outcomes of ensureDirectoryStriping: done, MkdirAll failed, lfs failed
DirOutcomes == {"ok", "mkdir", "lfs"}

\* the stripe descriptors lfs getstripe reports
ReportedStripes == [StripeCount : {1, 2}, StripeSize : {1024 * 1024}, StripeIndex : {0}]

PutInputs == [Bucket : {"b"}, Key : {"k"}, ContentLength : {Nil} \cup {<<n>> : n \in WrapSizes}]
GetInputs == [Bucket : {"b"}, Key : {"k"}]
PutEnvs == [dir1 : DirOutcomes, dir2 : DirOutcomes, under : UnderResults]
GetEnvs == [stat : {Nil} \cup {<<n>> : n \in WrapSizes},
            info : {Nil} \cup {<<si>> : si \in ReportedStripes},
            open : BOOLEAN, fstat : BOOLEAN, under : UnderResults]

ExtCall(fn, arg, e) == [fn |-> fn, arg |-> arg, err |-> e]

\* getLargeFileThreshold() with l.lustreConfig = cfg
getLargeFileThreshold(cfg) ==
    IF cfg.StripeSize > 0 THEN cfg.StripeSize * 2 ELSE 10 * 1024 * 1024

\* ensureDirectoryStriping(dirPath, stripeInfo): the calls it makes and its error
ensureDirectoryStriping(dirPath, stripeInfo, outcome) ==
    LET stat == ExtCall("os.Stat", dirPath, IF outcome = "mkdir" THEN ErrIO ELSE Nil)
        cmd == [c |-> IF stripeInfo.StripeCount > 0 THEN <<stripeInfo.StripeCount>> ELSE Nil,
                S |-> IF stripeInfo.StripeSize > 0 THEN <<stripeInfo.StripeSize>> ELSE Nil,
                i |-> IF stripeInfo.StripeIndex >= 0 THEN <<stripeInfo.StripeIndex>> ELSE Nil,
                dir |-> dirPath]
    IN  IF outcome = "mkdir"
        THEN [calls |-> <<stat, ExtCall("os.MkdirAll", dirPath, ErrMkdir)>>, err |-> ErrMkdir]
        ELSE IF outcome = "lfs"
        THEN [calls |-> <<stat, ExtCall("lfs setstripe", cmd, ErrExit)>>, err |-> ErrExit]
        ELSE [calls |-> <<stat, ExtCall("lfs setstripe", cmd, Nil)>>, err |-> Nil]

\* l.Backend.PutObject(ctx, input) / l.Backend.GetObject(ctx, input)
Delegate(fn, input, under) ==
    [calls |-> <<ExtCall(fn, input, under.err)>>, ret |-> under]

\* faulty variant: a striping failure is returned instead of the upload
putLargeObjectWithStriping_Strict(input, stripeInfo, env) ==
    LET filePath == Join(<<input.Bucket>>, <<input.Key>>)
        e == ensureDirectoryStriping(Dir(filePath), stripeInfo, env.dir2)
        d == Delegate("Backend.PutObject", input, env.under)
    IN  IF e.err # Nil THEN [calls |-> e.calls, ret |-> [out |-> None, err |-> e.err]]
        ELSE [calls |-> e.calls \o d.calls, ret |-> d.ret]

\* putLargeObjectWithStriping(ctx, input, stripeInfo)
putLargeObjectWithStriping(input, stripeInfo, env) ==
    LET filePath == Join(<<input.Bucket>>, <<input.Key>>)
        e == ensureDirectoryStriping(Dir(filePath), stripeInfo, env.dir2)
        d == Delegate("Backend.PutObject", input, env.under)
    IN  [calls |-> e.calls \o d.calls, ret |-> d.ret]

\* PutObject(ctx, input) with l.lustreConfig = cfg
PutObject(cfg, input, env) ==
    IF input.ContentLength = Nil
    THEN Delegate("Backend.PutObject", input, env.under)
    ELSE LET filePath == Join(<<input.Bucket>>, <<input.Key>>)
             contentLength == Deref(input.ContentLength)
             stripeConfig == calculateOptimalStriping(cfg, contentLength)
             e == ensureDirectoryStriping(Dir(filePath), stripeConfig, env.dir1)
             rest == IF contentLength > getLargeFileThreshold(cfg)
                     THEN putLargeObjectWithStriping(input, stripeConfig, env)
                     ELSE Delegate("Backend.PutObject", input, env.under)
         IN  [calls |-> e.calls \o rest.calls, ret |-> rest.ret]

\* getFileStripeInfo(filePath): lfs getstripe and the parse of its output
getFileStripeInfo(filePath, env) ==
    [calls |-> <<ExtCall("lfs getstripe", filePath, IF env.info = Nil THEN ErrExit ELSE Nil)>>,
     stripeInfo |-> env.info,
     err |-> IF env.info = Nil THEN ErrExit ELSE Nil]

\* getLargeObjectWithStriping(ctx, input, stripeInfo)
getLargeObjectWithStriping(input, stripeInfo, env) ==
    LET filePath == Join(<<input.Bucket>>, <<input.Key>>)
        d == Delegate("Backend.GetObject", input, env.under)
        open == ExtCall("os.Open", filePath, IF env.open THEN Nil ELSE ErrIO)
        fstat == ExtCall("file.Stat", filePath, IF env.fstat THEN Nil ELSE ErrIO)
        close == ExtCall("file.Close", filePath, Nil)
    IN  IF ~env.open THEN [calls |-> <<open>> \o d.calls, ret |-> d.ret]
        ELSE [calls |-> <<open, fstat>> \o d.calls \o <<close>>, ret |-> d.ret]

\* GetObject(ctx, input) with l.lustreConfig = cfg
GetObject(cfg, input, env) ==
    LET filePath == Join(<<input.Bucket>>, <<input.Key>>)
        d == Delegate("Backend.GetObject", input, env.under)
        stat == ExtCall("os.Stat", filePath, IF env.stat = Nil THEN ErrIO ELSE Nil)
        q == getFileStripeInfo(filePath, env)
        large == getLargeObjectWithStriping(input, Deref(q.stripeInfo), env)
    IN  IF env.stat = Nil THEN [calls |-> <<stat>> \o d.calls, ret |-> d.ret]
        ELSE IF Deref(env.stat) > getLargeFileThreshold(cfg)
        THEN IF q.err = Nil /\ Deref(q.stripeInfo).StripeCount > 1
             THEN [calls |-> <<stat>> \o q.calls \o large.calls, ret |-> large.ret]
             ELSE [calls |-> <<stat>> \o q.calls \o d.calls, ret |-> d.ret]
        ELSE [calls |-> <<stat>> \o d.calls, ret |-> d.ret]

\* NewLustreEnhancedBackend(backend, config), before any call
WrapInit == PlanInit

wrapFrame ==
    UNCHANGED <<loop, mtUserConfigs, config, pc, call, locals, result, ncalls, ncfg,
                dmVars, quotaVars, stripeVars, readVars, accessVars, cmVars>>

\* a client calls PutObject on the wrapper
WrapPut(input, env) ==
    /\ LET r == PutObject(lustreConfig, input, env)
       IN  wrap' = [op |-> "PutObject", input |-> input, under |-> env.under,
                    calls |-> r.calls, ret |-> r.ret]
    /\ wrapFrame

\* a client calls GetObject on the wrapper
WrapGet(input, env) ==
    /\ LET r == GetObject(lustreConfig, input, env)
       IN  wrap' = [op |-> "GetObject", input |-> input, under |-> env.under,
                    calls |-> r.calls, ret |-> r.ret]
    /\ wrapFrame

WrapNext ==
    \/ \E input \in PutInputs, env \in PutEnvs : WrapPut(input, env)
    \/ \E input \in GetInputs, env \in GetEnvs : WrapGet(input, env)

WrapSpec == WrapInit /\ [][WrapNext]_vars

(* ================== the configuration: ConfigManager =================== *)
\* the backend names a configuration file may list, and the type of each
CmNames == {"posix", "lustre", "fast"}
CmType(name) == IF name = "fast" THEN "lustre" ELSE name

\* the BackendConfig a configuration lists under a name
BackendConfigOf(name) == [Type |-> CmType(name), Name |-> name]

\* a MultiTenantConfig: the fields the manager reads
GlobalConfig(names, default) ==
    [Defaults |-> [BackendType |-> default],
     Backends |-> [name \in names |-> BackendConfigOf(name)]]

\* the configurations json.Unmarshal can read from multitenant.json
CmFiles == {GlobalConfig(names, default) : names \in SUBSET CmNames, default \in CmNames}

\* createDefaultConfig()
createDefaultConfig ==
    [Defaults |-> [BackendType |-> "posix"],
     Backends |-> [name \in {"posix", "cephfs", "lustre", "nfs", "minio"} |->
                     [Type |-> name, Name |-> name]]]

ErrNotLoaded == Leaf("global config not loaded")
ErrNoTemplate == Leaf("backend template not found")
ErrParse == Leaf("failed to parse config file")

\* GetBackendTemplate(name)
GetBackendTemplate(c, name) ==
    IF ~Has(c.backendTemplates, name) THEN [template |-> Nil, err |-> ErrNoTemplate]
    ELSE [template |-> <<c.backendTemplates[name]>>, err |-> Nil]

\* CreateUserConfig(userID, tenantID, backendType)
CreateUserConfig(c, userID, backendType) ==
    IF c.globalConfig = Nil THEN [config |-> Nil, err |-> ErrNotLoaded]
    ELSE IF ~Has(c.backendTemplates, backendType) THEN [config |-> Nil, err |-> ErrNoTemplate]
    ELSE [config |-> <<[UserID |-> userID, BackendType |-> backendType,
                        StoragePath |-> <<"mounts", "users", userID>>,
                        Template |-> c.backendTemplates[backendType]]>>,
          err |-> Nil]

\* LoadGlobalConfig: for name, backend := range config.Backends
\* { cm.backendTemplates[name] = &backend }: with one variable for the whole
\* loop every entry points at it and it holds the backend of the last pass
loadTemplates(templates, backends, last) ==
    [name \in DOMAIN templates \cup DOMAIN backends |->
        IF name \in DOMAIN backends
        THEN (IF perIteration THEN backends[name] ELSE backends[last])
        ELSE templates[name]]

CmInit ==
    /\ OthersIdle
    /\ ReadIdle
    /\ AccessIdle
    /\ WrapIdle
    /\ cm = NoCm
    /\ perIteration \in BOOLEAN

cmFrame ==
    UNCHANGED <<perIteration, mtUserConfigs, config, pc, call, locals, result, ncalls, ncfg,
                dmVars, quotaVars, stripeVars, readVars, accessVars, wrapVars>>

\* LoadGlobalConfig: os.ReadFile fails with another error than not-exist
LGC_ReadError ==
    /\ ~cm.called
    /\ cm' = [cm EXCEPT !.called = TRUE,
                        !.ret = Wrap("failed to read config file", ErrIO)]
    /\ cmFrame

\* LoadGlobalConfig: json.Unmarshal fails
LGC_ParseError ==
    /\ ~cm.called
    /\ cm' = [cm EXCEPT !.called = TRUE, !.ret = ErrParse]
    /\ cmFrame

\* LoadGlobalConfig: no file; the default configuration is created and saved
LGC_Default(saved) ==
    /\ ~cm.called
    /\ cm' = [cm EXCEPT !.called = TRUE,
                        !.globalConfig = <<createDefaultConfig>>,
                        !.ret = IF saved THEN Nil ELSE ErrIO]
    /\ cmFrame

\* LoadGlobalConfig: the file is read and parsed, the templates are loaded;
\* last is the name of the last pass of the loop over the map
LGC_File(file, last) ==
    /\ ~cm.called
    /\ last \in DOMAIN file.Backends \/ (DOMAIN file.Backends = {} /\ last = None)
    /\ cm' = [cm EXCEPT !.called = TRUE,
                        !.globalConfig = <<file>>,
                        !.backendTemplates = loadTemplates(@, file.Backends, last),
                        !.ret = Nil]
    /\ cmFrame

\* CreateAccount: m.configManager.CreateUserConfig(access, tenantID, backendType)
CUC_Create(u, backendType) ==
    /\ cm.called
    /\ cm.created = Nil
    /\ cm' = [cm EXCEPT !.created = <<CreateUserConfig(cm, u, backendType)>>]
    /\ cmFrame

CmNext ==
    \/ LGC_ReadError
    \/ LGC_ParseError
    \/ \E saved \in BOOLEAN : LGC_Default(saved)
    \/ \E file \in CmFiles, last \in CmNames \cup {None} : LGC_File(file, last)
    \/ \E u \in Users, backendType \in CmNames : CUC_Create(u, backendType)

CmSpec == CmInit /\ [][CmNext]_vars

(* ============================== claims ================================ *)
Returns(p, name) == call[p].name = name /\ pc[p] # "done" /\ pc'[p] = "done"
Returned(p, name) == call[p].name = name /\ pc[p] = "done"
Failed(r) == r.err # Nil
Last(log) == log[Len(log)]

\* the goroutines inside the construction (createBackendByType) for a tenant
Constructing(u) ==
    {p \in Procs : pc[p] \in {"cub_build", "cub_handle"} /\ call[p].userID = u}

\* C1: in every reachable state, for every tenant, at most one backend
\* construction is in progress, however many GetUserBackend calls for the
\* tenant are outstanding
C1_OneConstructionAtATime == \A u \in Users : Cardinality(Constructing(u)) <= 1

\* a construction is in progress while another GetUserBackend call for the
\* same tenant waits for the exclusive lock
C1_Witness ==
    \E p, q \in Procs :
        /\ p # q /\ p \in Constructing(call[p].userID)
        /\ call[q] = call[p] /\ pc[q] = "cub_lock"

\* two calls overlapped in time
Concurrent(p, q) == q \in inflight[p] \/ p \in inflight[q]

\* C2: two concurrent GetUserBackend calls for a tenant that had no record
\* and no handle (and whose configuration nobody sets meanwhile) run the
\* construction once between them and return the same handle or the same
\* error
C2_OneConstructionSharedResult ==
    \A p, q \in Procs :
        ( /\ p # q /\ call[p] = call[q] /\ ncfg = 0
          /\ Returned(p, "GetUserBackend") /\ Returned(q, "GetUserBackend")
          /\ fresh[p] /\ fresh[q] /\ Concurrent(p, q) )
        => /\ ~(built[p] /\ built[q])
           /\ result[p] = result[q]

\* the underlying causes of a failed construction
ConstructionCauses ==
    {ErrExit, ErrDeadline, ErrMkdir, ErrNew, Leaf("unsupported backend type"),
     Leaf("RustFS backend not implemented yet")}

\* C3: when the construction fails, GetUserBackend returns no handle and an
\* error that wraps the underlying cause (the deadline for a mount that timed
\* out, the exit status for one that failed), the tenant's record is in
\* state Error and no handle is registered for the tenant
C3_FailedConstruction ==
    [][\A p \in Procs :
         (Returns(p, "GetUserBackend") /\ built[p] /\ Failed(result'[p]))
         => LET u == call[p].userID
                e == result'[p].err
                log == cmdlog'[p]
            IN  /\ result'[p].backend = NilBackend
                /\ Head(e) = "failed to create backend for user"
                /\ Len(e) >= 2
                /\ Cause(e) \in ConstructionCauses
                /\ (log # << >> /\ Last(log).outcome = "timeout") => Cause(e) = ErrDeadline
                /\ (log # << >> /\ Last(log).outcome = "exit") => Cause(e) = ErrExit
                /\ Has(userConfigs', u)
                /\ userConfigs'[u].Status = BackendStatusError
                /\ ~Has(userBackends', u)]_vars

\* a GetUserBackend call has returned the error of a mount that timed out
C3_Witness ==
    \E p \in Procs :
        /\ Returned(p, "GetUserBackend") /\ built[p]
        /\ Cause(result[p].err) = ErrDeadline
        /\ cmdlog[p] = <<[cmd |-> "mount", outcome |-> "timeout"]>>
        /\ userConfigs[call[p].userID].Status = BackendStatusError

\* the tenant has nothing mounted (never mounted, or unmounted again), or its
\* record says Unmounted
NotMountedOrUnmounted(u) ==
    \/ osMounts[u] = 0
    \/ Has(userConfigs, u) /\ userConfigs[u].Status = BackendStatusUnmounted

\* C4: UnmountUserBackend on a tenant that was never mounted or is already
\* unmounted returns nil, runs no umount command and changes nothing in the
\* registry
C4_ReleaseIdempotent ==
    [][\A p \in Procs :
         (pc[p] = "uub_lock" /\ pc'[p] # pc[p] /\ NotMountedOrUnmounted(call[p].userID))
         => /\ pc'[p] = "done"
            /\ result'[p] = NoResult
            /\ cmdlog'[p] = << >>
            /\ registry' = registry
            /\ osMounts' = osMounts]_vars

\* an UnmountUserBackend call has returned nil without running a command on
\* a tenant that an earlier call had unmounted
C4_Witness ==
    \E p \in Procs :
        /\ Returned(p, "UnmountUserBackend")
        /\ result[p] = NoResult /\ cmdlog[p] = << >>
        /\ Has(userConfigs, call[p].userID)
        /\ userConfigs[call[p].userID].Status = BackendStatusUnmounted
        /\ osMounts[call[p].userID] = 0

\* C5: when UnmountUserBackend returns nil, the registry holds no handle for
\* the tenant, whatever its backend type
C5_ReleaseRemovesHandle ==
    [][\A p \in Procs :
         (Returns(p, "UnmountUserBackend") /\ ~Failed(result'[p]))
         => ~Has(userBackends', call[p].userID)]_vars

\* C6: when UnmountUserBackend returns the unmount error (both umount
\* commands failed), the tenant's handle and mount point are gone from the
\* registry
C6_CleanupOnFailedUnmount ==
    [][\A p \in Procs :
         (Returns(p, "UnmountUserBackend") /\ Failed(result'[p]))
         => /\ ~Has(userBackends', call[p].userID)
            /\ ~Has(mountPoints', call[p].userID)]_vars

\* C7: one UnmountUserBackend call runs the graceful umount first, the forced
\* one only after the graceful one failed and only once, and returns an
\* error only after the forced one failed too
C7_UnmountRetryProtocol ==
    \A p \in Procs :
        call[p].name = "UnmountUserBackend" =>
            LET log == cmdlog[p] IN
            /\ Len(log) <= 2
            /\ Len(log) >= 1 => log[1].cmd = "umount"
            /\ Len(log) = 2 => log[1].outcome # "ok" /\ log[2].cmd = "umount -f"
            /\ (pc[p] = "done" /\ Failed(result[p])) => Len(log) = 2 /\ log[2].outcome # "ok"
            /\ (pc[p] = "done" /\ Len(log) = 2 /\ log[2].outcome # "ok") => Failed(result[p])

\* an UnmountUserBackend call has returned an error after both commands failed
C7_Witness ==
    \E p \in Procs :
        /\ Returned(p, "UnmountUserBackend") /\ Failed(result[p])
        /\ cmdlog[p] = <<[cmd |-> "umount", outcome |-> "exit"],
                         [cmd |-> "umount -f", outcome |-> "exit"]>>

MountCommands(log) == {i \in 1..Len(log) : log[i].cmd = "mount"}

\* C8: one GetUserBackend call runs the mount command at most once, also
\* when the mount fails
C8_NoMountRetry ==
    \A p \in Procs :
        call[p].name = "GetUserBackend" => Cardinality(MountCommands(cmdlog[p])) <= 1

\* a GetUserBackend call has returned after its one mount command failed
C8_Witness ==
    \E p \in Procs :
        /\ Returned(p, "GetUserBackend") /\ Failed(result[p])
        /\ cmdlog[p] = <<[cmd |-> "mount", outcome |-> "exit"]>>

\* the mountState of a tenant; a tenant without a record is Unmounted
StatusOf(cfgs, u) == IF Has(cfgs, u) THEN cfgs[u].Status ELSE BackendStatusUnmounted

LifecycleEdges ==
    { <<BackendStatusUnmounted, BackendStatusPending>>,
      <<BackendStatusPending, BackendStatusMounting>>,
      <<BackendStatusMounting, BackendStatusReady>>,
      <<BackendStatusMounting, BackendStatusError>>,
      <<BackendStatusReady, BackendStatusUnmounting>>,
      <<BackendStatusUnmounting, BackendStatusUnmounted>>,
      <<BackendStatusUnmounting, BackendStatusError>> }

\* C9: the mountState of a tenant changes only along the edges of the
\* lifecycle state machine
C9_LifecycleEdges ==
    [][\A u \in Users :
         StatusOf(userConfigs, u) # StatusOf(userConfigs', u)
         => <<StatusOf(userConfigs, u), StatusOf(userConfigs', u)>> \in LifecycleEdges]_vars

\* C10: when the forced umount has failed too, the tenant's mountState is
\* Error when UnmountUserBackend returns
C10_FailedUnmountIsError ==
    [][\A p \in Procs :
         ( /\ Returns(p, "UnmountUserBackend")
           /\ Len(cmdlog'[p]) = 2 /\ Last(cmdlog'[p]).outcome # "ok" )
         => StatusOf(userConfigs', call[p].userID) = BackendStatusError]_vars

\* C11: in every reachable state, a tenant whose mountState is Ready has a
\* handle registered and, when its backend kind needs an OS mount (cephfs,
\* nfs, lustre), its filesystem is mounted and its mount point is recorded
C11_ReadyHasHandleAndMount ==
    \A u \in Users :
        (Has(userConfigs, u) /\ userConfigs[u].Status = BackendStatusReady)
        => /\ Has(userBackends, u)
           /\ userConfigs[u].BackendType \in MountKinds
              => (osMounts[u] >= 1 /\ Has(mountPoints, u))

\* a tenant of a kind that needs an OS mount is Ready
C11_Witness ==
    \E u \in Users :
        /\ Has(userConfigs, u) /\ userConfigs[u].Status = BackendStatusReady
        /\ userConfigs[u].BackendType \in MountKinds
        /\ Has(userBackends, u) /\ Has(mountPoints, u)

(* ------------------------- the quota guard --------------------------- *)
\* a goroutine's call of the quota guard runs its first step
QuotaCalls(p, name) ==
    ncalls' = ncalls + 1 /\ call'[p].name = name /\ call'[p].id = ncalls'

\* C12: CheckQuota authorises a write of additionalBytes exactly when the
\* tenant's quotaBytes is 0 or usedBytes + additionalBytes <= quotaBytes, and
\* otherwise returns ErrQuotaExceeded; it changes no record
C12_CheckQuotaDecision ==
    [][\A p \in Procs :
         (QuotaCalls(p, "CheckQuota") /\ Has(mtUserConfigs, call'[p].userID))
         => LET c == mtUserConfigs[call'[p].userID]
                n == call'[p].size
            IN  /\ result'[p].err = Nil <=> (c.Quota = 0 \/ c.UsedSpace + n <= c.Quota)
                /\ result'[p].err \in {Nil, ErrQuotaExceeded}
                /\ mtUserConfigs' = mtUserConfigs]_vars

\* C13: usedBytes is never negative, in any reachable state, in any record
C13_UsedSpaceNeverNegative ==
    \A u \in DOMAIN mtUserConfigs : mtUserConfigs[u].UsedSpace >= 0

RECURSIVE SumSizes(_)
SumSizes(ws) ==
    IF ws = {} THEN 0
    ELSE LET w == CHOOSE x \in ws : TRUE IN w.size + SumSizes(ws \ {w})

\* a goroutine stores the usage of the write CheckQuota let through
StoresWrite(p) ==
    /\ pc[p] = "uus_store" /\ pc'[p] = "uus_check"
    /\ authorised[p].userID = call[p].userID
    /\ Current(p)

Tier(size) ==
    CASE size < 1024 * 1024 -> 1
      [] 1024 * 1024 <= size /\ size < 100 * 1024 * 1024 -> 2
      [] 100 * 1024 * 1024 <= size /\ size < 1024 * 1024 * 1024 -> 4
      [] size >= 1024 * 1024 * 1024 -> 8

\* C15: the planned stripeCount is the tier of the size, replaced by
\* configuredMaxStripes when that is > 0 and the tier exceeds it;
\* preferredStripeIndex is always -1; with cap 0 a 500 KiB object plans 1 and
\* an object of 1 GiB or more plans 8
C15_TieredPlan ==
    \A i \in DOMAIN planned :
        LET cap == lustreConfig.StripeCount
            size == planned[i].size
            info == planned[i].stripeInfo
        IN  /\ info.StripeCount = IF cap > 0 /\ Tier(size) > cap THEN cap ELSE Tier(size)
            /\ info.StripeIndex = -1
            /\ (cap = 0 /\ size = 500 * 1024) => info.StripeCount = 1
            /\ (cap = 0 /\ size >= 1024 * 1024 * 1024) => info.StripeCount = 8

\* with cap 0, a 500 KiB object has been planned with 1 stripe and an object
\* just under 2 GiB with 8
C15_Witness ==
    /\ lustreConfig.StripeCount = 0 /\ Len(planned) = 2
    /\ planned[1].size = 500 * 1024 /\ planned[1].stripeInfo.StripeCount = 1
    /\ planned[2].size > 1024 * 1024 * 1024 /\ planned[2].stripeInfo.StripeCount = 8
    /\ planned[2].stripeInfo.StripeIndex = -1

\* C16: with cap 0 the planned stripeCount is monotone in the size; with a
\* cap c > 0 it never exceeds c
C16_MonotoneAndCapped ==
    /\ lustreConfig.StripeCount = 0 =>
         \A i, j \in DOMAIN planned :
             planned[i].size <= planned[j].size
             => planned[i].stripeInfo.StripeCount <= planned[j].stripeInfo.StripeCount
    /\ lustreConfig.StripeCount > 0 =>
         \A i \in DOMAIN planned :
             planned[i].stripeInfo.StripeCount <= lustreConfig.StripeCount

\* with cap 2 an object of 1 GiB has been planned with 2 stripes after one
\* of less than 1 MiB
C16_Witness ==
    /\ lustreConfig.StripeCount = 2 /\ Len(planned) = 2
    /\ planned[1].size < 1024 * 1024 /\ planned[1].stripeInfo.StripeCount = 1
    /\ planned[2].size = 1024 * 1024 * 1024 /\ planned[2].stripeInfo.StripeCount = 2

(* --------------------------- striped reads ---------------------------- *)
RECURSIVE SumChunkSizes(_)
SumChunkSizes(cs) == IF cs = << >> THEN 0 ELSE Head(cs).Size + SumChunkSizes(Tail(cs))

\* C17: for offset >= 0, length > 0, stripeSize > 0 and stripeCount >= 1 the
\* chunk sequence starts at offset, each chunk starts where the previous one
\* ends, every chunk has length > 0, the lengths sum to length, each chunk
\* lies inside one stripe and carries
\* stripeIndex = (chunk offset / stripeSize) mod stripeCount
C17_ChunksCoverRange ==
    (rpc = "chunks" /\ req.offset >= 0 /\ req.size > 0
       /\ req.stripeInfo.StripeSize > 0 /\ req.stripeInfo.StripeCount >= 1)
    => LET stripeSize == req.stripeInfo.StripeSize
           stripeCount == req.stripeInfo.StripeCount
       IN  /\ Len(chunks) >= 1
           /\ chunks[1].Offset = req.offset
           /\ \A i \in 1..(Len(chunks) - 1) :
                  chunks[i + 1].Offset = chunks[i].Offset + chunks[i].Size
           /\ \A i \in DOMAIN chunks : chunks[i].Size > 0
           /\ SumChunkSizes(chunks) = req.size
           /\ \A i \in DOMAIN chunks :
                  /\ chunks[i].Offset \div stripeSize
                       = (chunks[i].Offset + chunks[i].Size - 1) \div stripeSize
                  /\ chunks[i].Stripe = (chunks[i].Offset \div stripeSize) % stripeCount

\* a range that begins inside a stripe and ends inside another has been cut
\* into a partial chunk, a whole stripe and a partial chunk, over 2 stripes
C17_Witness ==
    /\ rpc = "chunks"
    /\ req.offset = 1 /\ req.size = 4
    /\ req.stripeInfo.StripeSize = 2 /\ req.stripeInfo.StripeCount = 2
    /\ chunks = <<[Offset |-> 1, Size |-> 1, Stripe |-> 0],
                  [Offset |-> 2, Size |-> 2, Stripe |-> 1],
                  [Offset |-> 4, Size |-> 1, Stripe |-> 0]>>

\* the bytes of the file in [offset, offset+size)
DirectBytes == [k \in 1..req.size |-> FileByte(req.offset + k - 1)]

\* C18: a ParallelRead that succeeds returns exactly the bytes one direct
\* positional read of [offset, offset+size) returns, whatever the order in
\* which the chunk reads complete; with stripeCount <= 1 it issues exactly
\* that one positional read
C18_SameBytesAsDirectRead ==
    (rpc = "done" /\ ret.err = Nil)
    => /\ ret.data = DirectBytes
       /\ req.stripeInfo.StripeCount <= 1
            => reads = <<[offset |-> req.offset, size |-> req.size]>>

\* four chunks over two stripes were read, the last one issued first, and
\* the call has returned the four bytes
C18_Witness ==
    /\ rpc = "done" /\ ret.err = Nil
    /\ req.stripeInfo.StripeCount = 2
    /\ Len(chunks) = 4
    /\ reads[1].offset = chunks[4].Offset
    /\ ret.data = <<2, 3, 4, 5>>

\* C19: a ParallelRead that fails returns no bytes, on the direct path and on
\* the striped path; on the striped path the error is the one of the failing
\* chunk with the smallest index
C19_NoBytesOnError ==
    (rpc = "done" /\ ret.err # Nil)
    => /\ ret.data = << >>
       /\ req.stripeInfo.StripeCount > 1
            => \E i \in DOMAIN errors :
                   /\ errors[i] = ret.err
                   /\ \A j \in 1..(i - 1) : errors[j] = Nil

\* C20: the chunk reads in flight never exceed
\* min(availableParallelism, stripeCount)
C20_BoundedParallelism ==
    rpc = "wait"
    => Cardinality({i \in DOMAIN wpc : wpc[i] = "read"})
         <= (IF numCPU < req.stripeInfo.StripeCount
             THEN numCPU ELSE req.stripeInfo.StripeCount)

\* two reads are in flight on 2 CPUs and 3 stripes while a third chunk waits
C20_Witness ==
    /\ rpc = "wait"
    /\ numCPU = 2 /\ req.stripeInfo.StripeCount = 3
    /\ Cardinality({i \in DOMAIN wpc : wpc[i] = "read"}) = 2
    /\ \E i \in DOMAIN wpc : wpc[i] = "sem"

\* C21: under fair scheduling every worker of a striped read gets a slot of
\* the semaphore, reads, gives the slot back and finishes, and the call
\* returns, for any number of chunks and any stripeCount > 1
C21_ParallelReadTerminates ==
    (rpc = "wait")
    ~> (rpc = "done" /\ sem = 0 /\ \A i \in DOMAIN wpc : wpc[i] = "done")

\* five chunks went through a semaphore of one slot and the call returned
C21_Witness ==
    /\ rpc = "done"
    /\ Len(chunks) = 5
    /\ numCPU = 1 /\ req.stripeInfo.StripeCount = 2
    /\ sem = 0
    /\ \A i \in DOMAIN wpc : wpc[i] = "done"

\* C22: once the request of a ParallelRead in progress is cancelled, no
\* further chunk read is issued and the call ends with a cancellation error
C22_CancelStopsChunkReads ==
    [][(ctxDone /\ rpc = "wait")
       => /\ reads' = reads
          /\ rpc' = "done" => ret'.err = ErrCanceled]_vars

(* ------------------------- registry, continued ------------------------ *)
\* the lock step goroutine q is about to take can proceed
CanProceed(q) ==
    /\ pc[q] = "gub_rlock" => CanRLock
    /\ pc[q] \in {"cub_lock", "ula_lock", "uub_lock"} => CanLock

\* C23: while a mount or construction for tenant A is in progress, a
\* GetUserBackend for another tenant B, a lookup or a construction, does
\* not wait for it
C23_TenantsShareNoLock ==
    \A p \in Procs, q \in Procs :
        (/\ pc[p] \in {"cub_build", "cub_handle"}
         /\ call[q].name = "GetUserBackend"
         /\ call[q].userID # call[p].userID
         /\ pc[q] \in {"gub_rlock", "cub_lock", "ula_lock"})
        => CanProceed(q)

\* C24: every GetUserBackend and every UnmountUserBackend call eventually
\* returns, the registry lock released, whatever its commands do (the
\* timeout ends a command that hangs) and on every error path
C24_EveryCallReturns ==
    \A p \in Procs : (pc[p] # "idle") ~> (pc[p] = "done" /\ mu.writer # p)

\* a construction whose mount command ran into its timeout has returned an
\* error, the lock is free and the other goroutine's call has returned too
C24_Witness ==
    \E p \in Procs, q \in Procs :
        /\ p # q
        /\ pc[p] = "done" /\ pc[q] = "done"
        /\ call[p].name = "GetUserBackend"
        /\ cmdlog[p] = <<[cmd |-> "mount", outcome |-> "timeout"]>>
        /\ result[p].err # Nil
        /\ p \in inflight[q]
        /\ mu = Unlocked

\* path is base or a descendant of it, component by component
IsUnder(base, path) ==
    /\ Len(path) >= Len(base)
    /\ SubSeq(path, 1, Len(base)) = base

\* C25: the storagePath of every stored record is the base mount root or a
\* descendant of it
C25_StoragePathUnderBase ==
    \A u \in Users :
        Has(mtUserConfigs, u) => IsUnder(BasePath, Clean(mtUserConfigs[u].StoragePath))

\* C26: no stored record has a backend kind outside the known list
\* {posix, cephfs, nfs, lustre, minio, rustfs}: an unknown kind is refused
\* when the record is stored, never first met while the backend is built
C26_OnlyKnownKindsStored ==
    \A u \in Users :
        Has(mtUserConfigs, u) => mtUserConfigs[u].BackendType \in validBackends

\* C27: when DeleteUserNamespace succeeds the tenant has no record, its
\* storage is unmounted and the registry holds no handle for it
C27_DeleteUnmountsAndRemoves ==
    [][\A u \in Users :
           (Has(mtUserConfigs, u) /\ ~Has(mtUserConfigs', u))
           => /\ ~Has(userBackends', u)
              /\ ~Has(mountPoints', u)
              /\ osMounts'[u] = 0]_vars

\* goroutine p ends the first step of createUserBackend for a tenant that
\* has neither a handle nor a record
FirstAccess(p) ==
    /\ pc[p] = "cub_lock" /\ pc'[p] # "cub_lock"
    /\ ~Has(userBackends, call[p].userID)
    /\ ~Has(mtUserConfigs, call[p].userID)

\* C28: GetUserBackend for a tenant without a record stores the default
\* record (default kind, the backend defaults, quota 0, usedBytes 0, storage
\* path <user base path>/storage) and builds the backend from it; when the
\* default record cannot be created the call returns an error and no
\* record, handle or mount point is added
C28_FirstAccessCreatesRecord ==
    [][\A p \in Procs :
         FirstAccess(p) =>
           LET u == call[p].userID IN
           IF pc'[p] = "cub_build"
           THEN /\ Has(mtUserConfigs', u)
                /\ mtUserConfigs'[u].BackendType = defaultBackendType
                /\ mtUserConfigs'[u].BackendConfig = BackendDefaults
                /\ mtUserConfigs'[u].Quota = 0
                /\ mtUserConfigs'[u].UsedSpace = 0
                /\ mtUserConfigs'[u].StoragePath = BasePath \o <<"users", u, "storage">>
                /\ userConfigs'[u].BackendType = defaultBackendType
           ELSE /\ pc'[p] = "done"
                /\ result'[p].err # Nil
                /\ result'[p].backend = NilBackend
                /\ UNCHANGED <<mtUserConfigs, userBackends, userConfigs, mountPoints>>]_vars

\* a first access has stored the default record and the construction goes on
C28_Witness ==
    \E p \in Procs :
        /\ pc[p] = "cub_build"
        /\ fresh[p]
        /\ Has(mtUserConfigs, call[p].userID)
        /\ mtUserConfigs[call[p].userID].StoragePath
             = BasePath \o <<"users", call[p].userID, "storage">>
        /\ userConfigs[call[p].userID].Status = BackendStatusPending

(* -------------------------- tenant isolation -------------------------- *)
\* C29: with tenant isolation on, ValidateUserAccess(user, path) succeeds
\* exactly when path is <base>/users/<user> or a descendant of it by path
\* components; a child whose name only begins with ".." is accepted
C29_AccessIffUnderUserBase ==
    (acc.done /\ Enabled)
    => (acc.err = Nil <=> IsUnder(UserBasePath(acc.userID), Clean(acc.resourcePath)))

\* C30: a GetUserBackend that has found the handle of its tenant holds the
\* registry lock in shared mode only: it waits for no reader, only for a
\* construction or teardown that holds the lock in exclusive mode
C30_LookupSharedModeOnly ==
    \A p \in Procs :
        (/\ call[p].name = "GetUserBackend"
         /\ pc[p] \in {"gub_rlock", "ula_lock"}
         /\ mu.writer = 0)
        => CanProceed(p)

\* C31: a call on a tenant of the object proxy (minio) runs no mount and no
\* unmount command and records no mount point, and the tenant is Ready, its
\* handle registered, as soon as the proxy handle is constructed
C31_ProxyNeverMounted ==
    [][\A p \in Procs :
         LET u == call[p].userID IN
         (/\ pc[p] \notin {"idle", "done"}
          /\ Has(userConfigs, u)
          /\ userConfigs[u].BackendType = "minio")
         => /\ cmdlog'[p] = cmdlog[p]
            /\ Has(mountPoints', u) => Has(mountPoints, u)
            /\ (pc[p] = "cub_build" /\ pc'[p] = "done" /\ result'[p].err = Nil)
                 => /\ Has(userBackends', u)
                    /\ userConfigs'[u].Status = BackendStatusReady]_vars

\* the calls of the wrapped backend made by the wrapper call
Delegations ==
    {i \in DOMAIN wrap.calls : wrap.calls[i].fn \in {"Backend.PutObject", "Backend.GetObject"}}

\* C32: every PutObject and GetObject of the Lustre wrapper calls the same
\* operation of the wrapped backend exactly once, with the input it was
\* given, and returns what that call returned, whatever the size and
\* whatever failed while striping or querying the stripe metadata
C32_TransparentDecorator ==
    wrap.op # None =>
        /\ Cardinality(Delegations) = 1
        /\ \A i \in Delegations :
               /\ wrap.calls[i].fn = (IF wrap.op = "PutObject" THEN "Backend.PutObject"
                                      ELSE "Backend.GetObject")
               /\ wrap.calls[i].arg = wrap.input
        /\ wrap.ret = wrap.under

\* an object above the threshold of twice the configured stripe size has been
\* put while both attempts to stripe its directory failed
C32_Witness ==
    /\ wrap.op = "PutObject"
    /\ lustreConfig.StripeSize = 1024 * 1024
    /\ wrap.input.ContentLength = <<2 * 1024 * 1024 + 1>>
    /\ Len(wrap.calls) = 5
    /\ wrap.calls[2].err # Nil /\ wrap.calls[4].err # Nil
    /\ wrap.ret.err = Nil

\* what the two managers hold for a tenant: handle, mount point, mountState,
\* quota and usage
TenantView(u) ==
    [handle |-> IF Has(userBackends, u) THEN <<userBackends[u]>> ELSE Nil,
     mountPoint |-> IF Has(mountPoints, u) THEN <<mountPoints[u]>> ELSE Nil,
     mountState |-> IF Has(userConfigs, u) THEN <<userConfigs[u].Status>> ELSE Nil,
     quota |-> IF Has(mtUserConfigs, u) THEN <<mtUserConfigs[u].Quota>> ELSE Nil,
     used |-> IF Has(mtUserConfigs, u) THEN <<mtUserConfigs[u].UsedSpace>> ELSE Nil]

C34_HandleImpliesReady ==
    mu.writer = 0 =>
        \A u \in Users :
            Has(userBackends, u)
            => Has(userConfigs, u) /\ userConfigs[u].Status = BackendStatusReady

\* C35: the mount command runs for a tenant only when no mount point is
\* recorded for it and the operating system has none of its filesystems
\* mounted: no second mount without an unmount in between
C35_NoDoubleMount ==
    [][\A p \in Procs :
         (Len(cmdlog'[p]) > Len(cmdlog[p]) /\ Last(cmdlog'[p]).cmd = "mount")
         => /\ ~Has(mountPoints, call[p].userID)
            /\ osMounts[call[p].userID] = 0]_vars

\* C36: a store of UpdateUsedSpace with a positive delta leaves the usage of
\* the record at the stored value plus the delta, whatever the other calls
\* did between this call's read and its write: no update is lost
C36_NoLostUpdate ==
    [][\A p \in Procs :
         LET u == call[p].userID IN
         (/\ pc[p] = "uus_store" /\ pc'[p] = "uus_check"
          /\ Current(p)
          /\ call[p].size > 0
          /\ mtUserConfigs[u].UsedSpace >= 0
          /\ mtUserConfigs[u].UsedSpace + call[p].size <= MaxInt64)
         => mtUserConfigs'[u].UsedSpace = mtUserConfigs[u].UsedSpace + call[p].size]_vars

\* C37: for a quota > 0, a usage >= 0 and an additional size >= 0, CheckQuota
\* returns ErrQuotaExceeded whenever usage + size, as a mathematical sum, is
\* greater than the quota, also when the sum is beyond the largest int64
C37_CheckQuotaWholeRange ==
    [][\A p \in Procs :
         (QuotaCalls(p, "CheckQuota") /\ Has(mtUserConfigs, call'[p].userID))
         => LET c == mtUserConfigs[call'[p].userID]
                n == call'[p].size
            IN  (c.Quota > 0 /\ c.UsedSpace >= 0 /\ n >= 0 /\ c.UsedSpace + n > c.Quota)
                => result'[p].err = ErrQuotaExceeded]_vars

\* C38: calculateStripeChunks, once entered with a descriptor of more than one
\* stripe, returns, whatever the stripe size, and what it returns for a
\* length <= 0 is the empty sequence
C38_DecomposeTerminates ==
    /\ (rpc = "loop") ~> (rpc = "returned")
    /\ [](rpc = "returned" /\ req.size <= 0 => chunks = << >>)

\* C39: after LoadGlobalConfig has returned success, every backend name of
\* the global configuration has a template, GetBackendTemplate(name) returns
\* the configuration listed under that name, and CreateUserConfig for the
\* default backend type succeeds
C39_TemplatesAfterLoad ==
    (cm.called /\ cm.ret = Nil) =>
        LET g == Deref(cm.globalConfig) IN
        /\ \A name \in DOMAIN g.Backends :
               /\ GetBackendTemplate(cm, name).err = Nil
               /\ GetBackendTemplate(cm, name).template = <<g.Backends[name]>>
        /\ CreateUserConfig(cm, "u1", g.Defaults.BackendType).err = Nil

====
